---- MODULE Spec2Model ----
(***************************************************************************)
(* A model of the insight-studio-backend validation pipeline.              *)
(*                                                                         *)
(* Text is modelled as a sequence of lexemes.  A lexeme is one character,  *)
(* or one word of the fixed vocabulary of the workbook (TRUE, ENUMERATION, *)
(* fact(, and, ...), which is always written as a single lexeme.  A cell   *)
(* of a table is such a sequence, or one of the tagged one-element         *)
(* sequences NoneV (Python None / NaN), TrueV and FalseV (Python bool).    *)
(***************************************************************************)
EXTENDS Integers, Sequences, FiniteSets, TLC

(***************************************************************************)
(* Cells and strings                                                       *)
(***************************************************************************)
NoneV == <<"<None>">>
TrueV == <<"<True>">>
FalseV == <<"<False>">>

IsNone(v) == v = NoneV
IsBool(v) == v \in {TrueV, FalseV}
IsStr(v) == ~IsNone(v) /\ ~IsBool(v)

\* src/validation/base.py: NULL_VALUE = "<NULL>"
NULL_VALUE == <<"<NULL>">>

\* src/validation/base.py: COMMENT_PREFIXES = ["COMMENT", "--", "#"]
COMMENT_PREFIXES == << <<"COMMENT">>, <<"-", "-">>, <<"#">> >>

\* str.upper() on one lexeme
UpperLex(c) ==
    CASE c = "a" -> "A" [] c = "b" -> "B" [] c = "c" -> "C"
      [] c = "d" -> "D" [] c = "e" -> "E" [] c = "f" -> "F"
      [] c = "g" -> "G" [] c = "h" -> "H" [] c = "i" -> "I"
      [] c = "k" -> "K" [] c = "l" -> "L" [] c = "m" -> "M"
      [] c = "n" -> "N" [] c = "o" -> "O" [] c = "r" -> "R"
      [] c = "s" -> "S" [] c = "t" -> "T" [] c = "u" -> "U"
      [] c = "x" -> "X" [] c = "y" -> "Y" [] c = "j" -> "J"
      [] c = "p" -> "P" [] c = "q" -> "Q" [] c = "v" -> "V"
      [] c = "w" -> "W" [] c = "z" -> "Z"
      [] c \in {"fact(", "Fact("} -> "FACT(" [] c = "facts(" -> "FACTS("
      [] c \in {"groups(", "Groups("} -> "GROUPS("
      [] c = "group(" -> "GROUP(" [] c = ".response(" -> ".RESPONSE("
      [] c = ".responses(" -> ".RESPONSES("
      [] c = "is_complete(" -> "IS_COMPLETE("
      [] c \in {"and", "And"} -> "AND" [] c \in {"or", "Or"} -> "OR"
      [] c \in {"not", "Not"} -> "NOT" [] c \in {"not(", "Not("} -> "NOT("
      [] c \in {"true", "True"} -> "TRUE"
      [] c \in {"false", "False"} -> "FALSE"
      [] c \in {"start", "Start"} -> "START"
      [] c = "is_complete" -> "IS_COMPLETE" [] c = "<null>" -> "<NULL>"
      [] c \in {"comment", "Comment"} -> "COMMENT"
      [] c \in {"yes", "Yes"} -> "YES" [] c \in {"exit", "Exit"} -> "EXIT"
      [] c \in {"enumeration", "Enumeration"} -> "ENUMERATION"
      [] c \in {"integer", "Integer"} -> "INTEGER"
      [] c \in {"statement", "Statement"} -> "STATEMENT"
      [] c \in {"conversation", "Conversation"} -> "CONVERSATION"
      [] c \in {"delegate", "Delegate"} -> "DELEGATE"
      [] c = "delegate=" -> "DELEGATE="
      [] c \in {"module", "Module"} -> "MODULE"
      [] c \in {"assessment", "Assessment"} -> "ASSESSMENT"
      [] c \in {"finding", "Finding"} -> "FINDING"
      [] c \in {"nodeid", "nodeId"} -> "NODEID"
      [] c \in {"assessmentid", "assessmentId"} -> "ASSESSMENTID"
      [] c = "algorithm" -> "ALGORITHM" [] c = "minute" -> "MINUTE"
      [] c = "minutes" -> "MINUTES"
      [] OTHER -> c

\* str.lower() on one lexeme
LowerLex(c) ==
    CASE c = "A" -> "a" [] c = "B" -> "b" [] c = "C" -> "c"
      [] c = "D" -> "d" [] c = "E" -> "e" [] c = "F" -> "f"
      [] c = "G" -> "g" [] c = "H" -> "h" [] c = "I" -> "i"
      [] c = "K" -> "k" [] c = "L" -> "l" [] c = "M" -> "m"
      [] c = "N" -> "n" [] c = "O" -> "o" [] c = "R" -> "r"
      [] c = "S" -> "s" [] c = "T" -> "t" [] c = "U" -> "u"
      [] c = "X" -> "x" [] c = "Y" -> "y" [] c = "J" -> "j"
      [] c = "P" -> "p" [] c = "Q" -> "q" [] c = "V" -> "v"
      [] c = "W" -> "w" [] c = "Z" -> "z"
      [] c \in {"FACT(", "Fact("} -> "fact(" [] c = "FACTS(" -> "facts("
      [] c \in {"GROUPS(", "Groups("} -> "groups("
      [] c = "GROUP(" -> "group(" [] c = ".RESPONSE(" -> ".response("
      [] c = ".RESPONSES(" -> ".responses("
      [] c = "IS_COMPLETE(" -> "is_complete("
      [] c \in {"AND", "And"} -> "and" [] c \in {"OR", "Or"} -> "or"
      [] c \in {"NOT", "Not"} -> "not" [] c \in {"NOT(", "Not("} -> "not("
      [] c \in {"TRUE", "True"} -> "true"
      [] c \in {"FALSE", "False"} -> "false"
      [] c \in {"START", "Start"} -> "start"
      [] c = "IS_COMPLETE" -> "is_complete" [] c = "<NULL>" -> "<null>"
      [] c \in {"COMMENT", "Comment"} -> "comment"
      [] c \in {"YES", "Yes"} -> "yes" [] c \in {"EXIT", "Exit"} -> "exit"
      [] c \in {"ENUMERATION", "Enumeration"} -> "enumeration"
      [] c \in {"INTEGER", "Integer"} -> "integer"
      [] c \in {"STATEMENT", "Statement"} -> "statement"
      [] c \in {"CONVERSATION", "Conversation"} -> "conversation"
      [] c \in {"DELEGATE", "Delegate"} -> "delegate"
      [] c = "DELEGATE=" -> "delegate="
      [] c \in {"MODULE", "Module"} -> "module"
      [] c \in {"ASSESSMENT", "Assessment"} -> "assessment"
      [] c \in {"FINDING", "Finding"} -> "finding"
      [] c \in {"NODEID", "nodeId"} -> "nodeid"
      [] c \in {"ASSESSMENTID", "assessmentId"} -> "assessmentid"
      [] c = "ALGORITHM" -> "algorithm" [] c = "MINUTE" -> "minute"
      [] c = "MINUTES" -> "minutes"
      [] OTHER -> c

Upper(s) == [i \in 1..Len(s) |-> UpperLex(s[i])]
Lower(s) == [i \in 1..Len(s) |-> LowerLex(s[i])]

\* str.strip(): the only white space of the model is the lexeme " "
RECURSIVE LStrip(_)
LStrip(s) == IF s # <<>> /\ Head(s) = " " THEN LStrip(Tail(s)) ELSE s

RECURSIVE RStrip(_)
RStrip(s) == IF s # <<>> /\ s[Len(s)] = " " THEN RStrip(SubSeq(s, 1, Len(s) - 1)) ELSE s

Strip(s) == RStrip(LStrip(s))

\* str.startswith(prefix)
StartsWith(s, p) == Len(s) >= Len(p) /\ SubSeq(s, 1, Len(p)) = p

\* the single-lexeme entries of replacement_dict: "endash" is U+2013,
\* "rsquo" is U+2019, "ge" is U+2265
clean_json_str(s) ==
    [i \in 1..Len(s) |->
        CASE s[i] = "endash" -> "-"
          [] s[i] = "rsquo" -> "'"
          [] s[i] = "ge" -> ">="
          [] OTHER -> s[i]]

is_comment(text) ==
    IF text = <<>> THEN FALSE
    ELSE \E k \in 1..Len(COMMENT_PREFIXES) :
            StartsWith(Upper(Strip(text)), COMMENT_PREFIXES[k])

\* value is a string or NoneV
is_row_to_skip(value, heading) ==
    IF IsNone(value) THEN TRUE
    ELSE LET text == Upper(Strip(value))
         IN  \/ Len(text) = 0
             \/ text = Upper(NULL_VALUE)
             \/ text = Upper(heading)
             \/ is_comment(value)

get_str_value(row_dict, key) ==
    LET value == IF key \in DOMAIN row_dict THEN row_dict[key] ELSE NoneV
    IN  IF IsNone(value) THEN NULL_VALUE
        ELSE IF IsBool(value)
             THEN (IF value = TrueV THEN <<"TRUE">> ELSE <<"FALSE">>)
        ELSE LET stripped == Strip(clean_json_str(value))
             IN  IF Len(stripped) > 0 THEN stripped ELSE NULL_VALUE

(***************************************************************************)
(* Issues.  The message of an issue is the pair of its message template    *)
(* and the value interpolated into it, so two issues carry the same text   *)
(* exactly when their messages are equal.                                  *)
(***************************************************************************)
ValidationIssue(sheet, row, field, severity, template, value) ==
    [sheet |-> sheet, row |-> row, field |-> field, severity |-> severity,
     message |-> <<template, value>>]

\* row of an issue that is not attached to a row (Python None)
NoRow == 0 - 1

\* a dict in insertion order is a sequence of entries, each with its key
HasKey(d, k) == \E i \in 1..Len(d) : d[i].key = k
Lookup(d, k) == d[CHOOSE i \in 1..Len(d) : d[i].key = k]

\* a sheet missing from session_data and an empty sheet are both passed over
\* by the Level 3 build ("not in self.session_data" / "df.empty")
Sheet(session_data, name) ==
    IF name \in DOMAIN session_data THEN session_data[name] ELSE <<>>

(***************************************************************************)
(* Level 3: FullModelValidator, construction of the lookup structures      *)
(***************************************************************************)
\* acc = [map, issues]; idx is the 0-based DataFrame index of the row
RECURSIVE build_modules(_, _, _)
build_modules(df, idx, acc) ==
    IF idx >= Len(df) THEN acc
    ELSE
      LET row_dict == df[idx + 1]
          module_code == get_str_value(row_dict, "moduleCode")
          code == Upper(module_code)
      IN  IF module_code = NULL_VALUE \/ is_comment(module_code)
          THEN build_modules(df, idx + 1, acc)
          ELSE IF HasKey(acc.map, code)
          THEN build_modules(df, idx + 1,
                 [acc EXCEPT !.issues = Append(@,
                    ValidationIssue("Modules", idx, "moduleCode", "error",
                                    "Duplicate moduleCode", code))])
          ELSE build_modules(df, idx + 1,
                 [acc EXCEPT !.map = Append(@,
                    [key |-> code, row |-> idx, sheet |-> "Modules",
                     moduleCode |-> code,
                     isUserAssignable |-> Upper(get_str_value(row_dict, "isUserAssignable")),
                     name |-> get_str_value(row_dict, "name"),
                     clientFriendlyName |-> get_str_value(row_dict, "clientFriendlyName"),
                     description |-> get_str_value(row_dict, "description"),
                     estimatedDuration |-> get_str_value(row_dict, "estimatedDuration")])])

\* a build of the assessment map in which a later row with a key already
\* present replaces the entry; FirstSeenWins tells it from build_assessments
RECURSIVE build_assessments_last_wins(_, _, _)
build_assessments_last_wins(df, idx, acc) ==
    IF idx >= Len(df) THEN acc
    ELSE
      LET row_dict == df[idx + 1]
          assessment_code == get_str_value(row_dict, "assessmentCode")
          code == Upper(assessment_code)
          entry == [key |-> code, row |-> idx, sheet |-> "Assessments",
                    assessmentCode |-> code, assessmentId |-> code,
                    moduleCode |-> Upper(get_str_value(row_dict, "moduleCode")),
                    isUserAssignable |-> Upper(get_str_value(row_dict, "isUserAssignable")),
                    name |-> get_str_value(row_dict, "name"),
                    clientFriendlyName |-> get_str_value(row_dict, "clientFriendlyName"),
                    description |-> get_str_value(row_dict, "description"),
                    estimatedDuration |-> get_str_value(row_dict, "estimatedDuration")]
      IN  IF assessment_code = NULL_VALUE \/ is_comment(assessment_code)
          THEN build_assessments_last_wins(df, idx + 1, acc)
          ELSE IF HasKey(acc.map, code)
          THEN build_assessments_last_wins(df, idx + 1,
                 [map |-> [j \in 1..Len(acc.map) |->
                              IF acc.map[j].key = code THEN entry ELSE acc.map[j]],
                  issues |-> Append(acc.issues,
                    ValidationIssue("Assessments", idx, "assessmentCode", "error",
                                    "Duplicate assessmentCode", code))])
          ELSE build_assessments_last_wins(df, idx + 1,
                 [acc EXCEPT !.map = Append(@, entry)])

RECURSIVE build_assessments(_, _, _)
build_assessments(df, idx, acc) ==
    IF idx >= Len(df) THEN acc
    ELSE
      LET row_dict == df[idx + 1]
          assessment_code == get_str_value(row_dict, "assessmentCode")
          code == Upper(assessment_code)
      IN  IF assessment_code = NULL_VALUE \/ is_comment(assessment_code)
          THEN build_assessments(df, idx + 1, acc)
          ELSE IF HasKey(acc.map, code)
          THEN build_assessments(df, idx + 1,
                 [acc EXCEPT !.issues = Append(@,
                    ValidationIssue("Assessments", idx, "assessmentCode", "error",
                                    "Duplicate assessmentCode", code))])
          ELSE build_assessments(df, idx + 1,
                 [acc EXCEPT !.map = Append(@,
                    [key |-> code, row |-> idx, sheet |-> "Assessments",
                     assessmentCode |-> code, assessmentId |-> code,
                     moduleCode |-> Upper(get_str_value(row_dict, "moduleCode")),
                     isUserAssignable |-> Upper(get_str_value(row_dict, "isUserAssignable")),
                     name |-> get_str_value(row_dict, "name"),
                     clientFriendlyName |-> get_str_value(row_dict, "clientFriendlyName"),
                     description |-> get_str_value(row_dict, "description"),
                     estimatedDuration |-> get_str_value(row_dict, "estimatedDuration")])])

RECURSIVE build_findings(_, _, _)
build_findings(df, idx, acc) ==
    IF idx >= Len(df) THEN acc
    ELSE
      LET row_dict == df[idx + 1]
          finding_code == get_str_value(row_dict, "findingCode")
          code == Upper(finding_code)
      IN  IF finding_code = NULL_VALUE \/ is_comment(finding_code)
          THEN build_findings(df, idx + 1, acc)
          ELSE IF HasKey(acc.map, code)
          THEN build_findings(df, idx + 1,
                 [acc EXCEPT !.issues = Append(@,
                    ValidationIssue("Findings", idx, "findingCode", "error",
                                    "Duplicate findingCode", code))])
          ELSE build_findings(df, idx + 1,
                 [acc EXCEPT !.map = Append(@,
                    [key |-> code, row |-> idx, sheet |-> "Findings",
                     findingCode |-> code,
                     name |-> get_str_value(row_dict, "name"),
                     clientFriendlyName |-> get_str_value(row_dict, "clientFriendlyName"),
                     icdCode |-> get_str_value(row_dict, "icdCode"),
                     tags |-> get_str_value(row_dict, "tags")])])

\* Python truthiness of a cell: None, False and "" are falsy
Truthy(v) == ~IsNone(v) /\ v # FalseV /\ v # <<>>

\* the derived boolean of an Enumerations row: TrueV, FalseV or NoneV
derived_bool(row_dict) ==
    LET dv == IF "derivedValue" \in DOMAIN row_dict THEN row_dict["derivedValue"] ELSE NoneV
        dbv == IF "derivedBooleanValue" \in DOMAIN row_dict
               THEN row_dict["derivedBooleanValue"] ELSE NoneV
        derived_value == IF Truthy(dv) THEN dv ELSE dbv
    IN  IF IsNone(derived_value) THEN NoneV
        ELSE IF IsBool(derived_value) THEN derived_value
        ELSE IF Upper(Strip(derived_value)) = <<"TRUE">> THEN TrueV
        ELSE IF Upper(Strip(derived_value)) = <<"FALSE">> THEN FalseV
        ELSE NoneV

\* enumerations: dict enumerationType -> list of values, in insertion order
RECURSIVE build_enumerations(_, _, _)
build_enumerations(df, idx, acc) ==
    IF idx >= Len(df) THEN acc
    ELSE
      LET row_dict == df[idx + 1]
          enum_type == get_str_value(row_dict, "enumerationType")
          item == [value |-> get_str_value(row_dict, "value"),
                   derivedBooleanValue |-> derived_bool(row_dict),
                   tags |-> Upper(get_str_value(row_dict, "tags")),
                   sequence |-> get_str_value(row_dict, "seq"),
                   languageCode |-> Upper(get_str_value(row_dict, "languageCode")),
                   row |-> idx, sheet |-> "Enumerations"]
      IN  IF enum_type = NULL_VALUE \/ is_comment(enum_type)
          THEN build_enumerations(df, idx + 1, acc)
          ELSE IF HasKey(acc, enum_type)
          THEN build_enumerations(df, idx + 1,
                 [i \in 1..Len(acc) |->
                    IF acc[i].key = enum_type
                    THEN [acc[i] EXCEPT !.values = Append(@, item)]
                    ELSE acc[i]])
          ELSE build_enumerations(df, idx + 1,
                 Append(acc, [key |-> enum_type, values |-> <<item>>]))

RECURSIVE build_findings_relationships(_, _, _)
build_findings_relationships(df, idx, acc) ==
    IF idx >= Len(df) THEN acc
    ELSE
      LET row_dict == df[idx + 1]
          source_code == get_str_value(row_dict, "sourceFindingCode")
      IN  IF source_code = NULL_VALUE \/ is_comment(source_code)
          THEN build_findings_relationships(df, idx + 1, acc)
          ELSE build_findings_relationships(df, idx + 1,
                 Append(acc,
                    [row |-> idx, sheet |-> "Findings Relationships",
                     sourceFindingCode |-> Upper(source_code),
                     targetFindingCode |-> Upper(get_str_value(row_dict, "targetFindingCode")),
                     sequence |-> get_str_value(row_dict, "sequence"),
                     relationshipTypeCode |-> Upper(get_str_value(row_dict, "relationshipTypeCode")),
                     descriptor |-> get_str_value(row_dict, "descriptor")]))

(***************************************************************************)
(* Sequence helpers standing for the str methods the code uses             *)
(***************************************************************************)
\* "pat in s"
ContainsSub(s, pat) ==
    \E i \in 1..(Len(s) - Len(pat) + 1) : SubSeq(s, i, i + Len(pat) - 1) = pat

\* str.split(sep) for a one-lexeme separator
RECURSIVE SplitBy(_, _)
SplitBy(s, sep) ==
    IF \E i \in 1..Len(s) : s[i] = sep
    THEN LET i == CHOOSE k \in 1..Len(s) : s[k] = sep /\ \A j \in 1..(k - 1) : s[j] # sep
         IN  <<SubSeq(s, 1, i - 1)>> \o SplitBy(SubSeq(s, i + 1, Len(s)), sep)
    ELSE <<s>>

\* str.replace(pat, rep): left to right, non-overlapping
RECURSIVE ReplaceAll(_, _, _)
ReplaceAll(s, pat, rep) ==
    IF Len(s) < Len(pat) THEN s
    ELSE IF SubSeq(s, 1, Len(pat)) = pat
         THEN rep \o ReplaceAll(SubSeq(s, Len(pat) + 1, Len(s)), pat, rep)
         ELSE <<Head(s)>> \o ReplaceAll(Tail(s), pat, rep)

\* lexemes whose last character is "("
EndsLParen(c) ==
    c \in {"(", "fact(", "FACT(", "Fact(", "facts(", "FACTS(", "groups(", "GROUPS(",
           "Groups(", "group(", "GROUP(", ".response(", ".RESPONSE(", ".responses(",
           ".RESPONSES(", "is_complete(", "IS_COMPLETE(", "not(", "NOT(", "Not("}

\* str.replace("(" + lit + ")", "(" + rep + ")"): the "(" may be the last
\* character of the lexeme before lit
ReplaceParenLit(s, lit, rep) ==
    [i \in 1..Len(s) |->
        IF /\ s[i] = lit
           /\ i > 1 /\ EndsLParen(s[i - 1])
           /\ i < Len(s) /\ s[i + 1] = ")"
        THEN rep ELSE s[i]]

normalize_algorithm(algorithm) ==
    IF algorithm = <<>> \/ Upper(algorithm) = Upper(NULL_VALUE) THEN NULL_VALUE
    ELSE IF Upper(algorithm) = <<"START">> \/ Upper(algorithm) = <<"IS_COMPLETE">>
    THEN Lower(algorithm)
    ELSE
      LET r1 == ReplaceAll(ReplaceAll(algorithm, <<"FACT(">>, <<"fact(">>),
                           <<"FACTS(">>, <<"fact(">>)
          r2 == ReplaceAll(ReplaceAll(r1, <<"GROUPS(">>, <<"groups(">>),
                           <<"GROUP(">>, <<"groups(">>)
          r3 == ReplaceAll(ReplaceAll(r2, <<" ", "OR", " ">>, <<" ", "or", " ">>),
                           <<" ", "AND", " ">>, <<" ", "and", " ">>)
          r4 == ReplaceAll(ReplaceAll(r3, <<" ", "||", " ">>, <<" ", "or", " ">>),
                           <<" ", "&&", " ">>, <<" ", "and", " ">>)
          r5 == ReplaceAll(r4, <<" ", "NOT", " ">>, <<" ", "not", " ">>)
          r6 == ReplaceAll(ReplaceAll(r5, <<".RESPONSE(">>, <<".response(">>),
                           <<".RESPONSES(">>, <<".response(">>)
          r7 == ReplaceAll(ReplaceAll(ReplaceAll(r6,
                           <<" ", "=", " ">>, <<" ", "==", " ">>),
                           <<" ", "=>", " ">>, <<" ", ">=", " ">>),
                           <<" ", "=<", " ">>, <<" ", "<=", " ">>)
          r8 == ReplaceParenLit(ReplaceParenLit(r7, "true", "True"), "TRUE", "True")
          r9 == ReplaceAll(ReplaceAll(r8, <<"==", " ", "true">>, <<"==", " ", "True">>),
                           <<"==", " ", "TRUE">>, <<"==", " ", "True">>)
          r10 == ReplaceParenLit(ReplaceParenLit(r9, "false", "False"), "FALSE", "False")
          r11 == ReplaceAll(ReplaceAll(r10, <<"==", " ", "false">>, <<"==", " ", "False">>),
                            <<"==", " ", "FALSE">>, <<"==", " ", "False">>)
      IN  r11

convert_string_to_bool(value) ==
    IF IsBool(value) THEN value = TrueV
    ELSE IF IsNone(value) THEN FALSE
    ELSE Upper(Strip(value)) \in {<<"TRUE">>, <<"1">>}

\* the Level Facts sheets of the workbook, in session_data key order (the
\* order of AVAILABLE_SHEETS, in which the loader fills session_data)
FactSheets == <<"Level 0 Facts", "Level 1 Facts", "Level 2 Facts", "Level 3 Facts">>

\* a report for every row of an assessment that is on another sheet than the
\* assessment's first; C19_OneMultipleSheetsErrorPerAssessment tells it from
\* cross_sheet_report
cross_sheet_report_every_row(g, assessment_id, sheet_name) ==
    /\ assessment_id # NULL_VALUE
    /\ HasKey(g, assessment_id)
    /\ Lookup(g, assessment_id).sheet # sheet_name

\* the row is the first of its assessment on another sheet than the
\* assessment's first: g is self.grouped_nodes before the row
cross_sheet_report(g, assessment_id, sheet_name) ==
    /\ assessment_id # NULL_VALUE
    /\ HasKey(g, assessment_id)
    /\ Lookup(g, assessment_id).sheet # sheet_name
    /\ ~Lookup(g, assessment_id).cross_sheet_reported

\* acc = [grouped_nodes, issues, fact_id_set, fact_group_set]
RECURSIVE build_grouped_nodes(_, _, _, _)
build_grouped_nodes(sheet_name, df, idx, acc) ==
    IF idx >= Len(df) THEN acc
    ELSE
      LET row_dict == df[idx + 1]
          raw_node_id == get_str_value(row_dict, "nodeId")
          assessment_id == Upper(get_str_value(row_dict, "assessmentId"))
          fact_id == Upper(get_str_value(row_dict, "factId"))
          fact_group == Upper(get_str_value(row_dict, "factGroup"))
          node == [sheet |-> sheet_name, row |-> idx,
                   nodeId |-> Upper(raw_node_id),
                   assessmentId |-> assessment_id,
                   factId |-> fact_id,
                   factGroup |-> fact_group,
                   nodeText |-> get_str_value(row_dict, "nodeText"),
                   dataType |-> Upper(get_str_value(row_dict, "dataType")),
                   isDeterministic |-> Upper(get_str_value(row_dict, "isDeterministic")),
                   range |-> Upper(get_str_value(row_dict, "range")),
                   enumerationType |-> get_str_value(row_dict, "enumerationType"),
                   target |-> Upper(get_str_value(row_dict, "target")),
                   restartPoint |->
                       convert_string_to_bool(get_str_value(row_dict, "isRestartPoint"))]
          g == acc.grouped_nodes
          known == HasKey(g, assessment_id)
          other_sheet == known /\ Lookup(g, assessment_id).sheet # sheet_name
          \* grouped_nodes after this row
          g1 == IF assessment_id = NULL_VALUE THEN g
                ELSE IF ~known
                THEN Append(g, [key |-> assessment_id, nodes |-> <<node>>, row |-> idx,
                                sheet |-> sheet_name, cross_sheet_reported |-> FALSE])
                ELSE [i \in 1..Len(g) |->
                        IF g[i].key # assessment_id THEN g[i]
                        ELSE IF other_sheet
                             THEN [g[i] EXCEPT !.cross_sheet_reported = TRUE]
                             ELSE [g[i] EXCEPT !.nodes = Append(@, node)]]
          report == cross_sheet_report(g, assessment_id, sheet_name)
          issues1 == IF report
                     THEN Append(acc.issues,
                            ValidationIssue(sheet_name, idx, "assessmentId", "error",
                                            "assessmentId found on multiple sheets",
                                            assessment_id))
                     ELSE acc.issues
          \* the "continue" of a cross-sheet row skips the fact registration
          skipped == assessment_id # NULL_VALUE /\ other_sheet
      IN  IF is_row_to_skip(raw_node_id, <<"nodeId">>)
          THEN build_grouped_nodes(sheet_name, df, idx + 1, acc)
          ELSE build_grouped_nodes(sheet_name, df, idx + 1,
                 [grouped_nodes |-> g1,
                  issues |-> issues1,
                  fact_id_set |->
                     IF ~skipped /\ fact_id # NULL_VALUE
                     THEN acc.fact_id_set \cup {fact_id} ELSE acc.fact_id_set,
                  fact_group_set |->
                     IF ~skipped /\ fact_group # NULL_VALUE
                     THEN acc.fact_group_set \cup {fact_group} ELSE acc.fact_group_set])

\* one entry of self.algorithms
algorithm_entry(row_dict, idx, algorithm, event, assessment_code) ==
    [row |-> idx, sheet |-> "Algorithms",
     algorithmId |-> get_str_value(row_dict, "algorithmId"),
     algorithm |-> normalize_algorithm(algorithm),
     originalAlgorithm |-> algorithm,
     event |-> event,
     moduleCode |-> Upper(get_str_value(row_dict, "moduleCode")),
     assessmentCode |-> assessment_code,
     findingCode |-> Upper(get_str_value(row_dict, "findingCode"))]

RECURSIVE build_algorithms(_, _, _)
build_algorithms(df, idx, acc) ==
    IF idx >= Len(df) THEN acc
    ELSE
      LET row_dict == df[idx + 1]
          skip_row == Upper(get_str_value(row_dict, "skipRow"))
          algorithm == get_str_value(row_dict, "algorithm")
          event == Upper(get_str_value(row_dict, "event"))
          assessment_code == Upper(get_str_value(row_dict, "assessmentCode"))
          assessment_codes == SplitBy(assessment_code, ",")
      IN  IF skip_row = <<"YES">> \/ is_row_to_skip(algorithm, <<"algorithm">>)
          THEN build_algorithms(df, idx + 1, acc)
          ELSE IF event = <<"ASSESSMENT">> /\ assessment_code # NULL_VALUE
          THEN build_algorithms(df, idx + 1,
                 acc \o [k \in 1..Len(assessment_codes) |->
                           algorithm_entry(row_dict, idx, algorithm, event,
                                           Upper(Strip(assessment_codes[k])))])
          ELSE build_algorithms(df, idx + 1,
                 Append(acc, algorithm_entry(row_dict, idx, algorithm, event,
                                             assessment_code)))

\* FullModelValidator.__init__: the fields of a freshly constructed validator
build_model(session_data) ==
    LET RECURSIVE g(_, _)
        g(k, issues) ==
            IF k = 0
            THEN [grouped_nodes |-> <<>>, issues |-> issues,
                  fact_id_set |-> {}, fact_group_set |-> {}]
            ELSE build_grouped_nodes(FactSheets[k],
                     Sheet(session_data, FactSheets[k]), 0, g(k - 1, issues))
        Built(m, a, f, g2) ==
            [modules |-> m.map, assessments |-> a.map,
             enumerations |->
                 build_enumerations(Sheet(session_data, "Enumerations"), 0, <<>>),
             findings |-> f.map,
             findings_relationships |->
                 build_findings_relationships(
                     Sheet(session_data, "Findings Relationships"), 0, <<>>),
             grouped_nodes |-> g2.grouped_nodes,
             algorithms |->
                 build_algorithms(Sheet(session_data, "Algorithms"), 0, <<>>),
             fact_id_set |-> g2.fact_id_set, fact_group_set |-> g2.fact_group_set,
             build_issues |-> g2.issues]
        WithFindings(m, a, f) == Built(m, a, f, g(Len(FactSheets), f.issues))
        WithAssessments(m, a) ==
            WithFindings(m, a, build_findings(Sheet(session_data, "Findings"), 0,
                                          [map |-> <<>>, issues |-> a.issues]))
        WithModules(m) ==
            WithAssessments(m, build_assessments(Sheet(session_data, "Assessments"), 0,
                                             [map |-> <<>>, issues |-> m.issues]))
    IN  WithModules(build_modules(Sheet(session_data, "Modules"), 0,
                              [map |-> <<>>, issues |-> <<>>]))

(***************************************************************************)
(* Results (src/validation/base.py)                                        *)
(***************************************************************************)
RECURSIVE Concat(_)
Concat(ss) == IF ss = <<>> THEN <<>> ELSE Head(ss) \o Concat(Tail(ss))

CountSeverity(issues, severity) ==
    Cardinality({i \in 1..Len(issues) : issues[i].severity = severity})

\* a ValidationCategory after add_issue of every issue of the list
ValidationCategory(name, issues) ==
    [name |-> name,
     passed |-> CountSeverity(issues, "error") = 0,
     error_count |-> CountSeverity(issues, "error"),
     warning_count |-> CountSeverity(issues, "warning"),
     info_count |-> Len(issues) - CountSeverity(issues, "error")
                               - CountSeverity(issues, "warning"),
     issues |-> issues]

\* ValidationCategory(name=name): passed, with no issue counted
NewCategory(name) ==
    [name |-> name, passed |-> TRUE, error_count |-> 0, warning_count |-> 0,
     info_count |-> 0, issues |-> <<>>]

\* an add_issue under which a warning fails the category as an error does;
\* C13_ContainersRollUp tells it from category_add_issue
category_add_issue_failing(category, issue) ==
    IF issue.severity \in {"error", "warning"}
    THEN [category EXCEPT !.issues = Append(@, issue), !.passed = FALSE,
                          !.error_count = @ + (IF issue.severity = "error" THEN 1 ELSE 0),
                          !.warning_count = @ + (IF issue.severity = "warning" THEN 1 ELSE 0)]
    ELSE [category EXCEPT !.issues = Append(@, issue), !.info_count = @ + 1]

\* ValidationCategory.add_issue
category_add_issue(category, issue) ==
    IF issue.severity = "error"
    THEN [category EXCEPT !.issues = Append(@, issue), !.error_count = @ + 1,
                          !.passed = FALSE]
    ELSE IF issue.severity = "warning"
    THEN [category EXCEPT !.issues = Append(@, issue), !.warning_count = @ + 1]
    ELSE [category EXCEPT !.issues = Append(@, issue), !.info_count = @ + 1]

\* add_issue of every issue of a list, in order
RECURSIVE category_add_issues(_, _)
category_add_issues(category, issues) ==
    IF issues = <<>> THEN category
    ELSE category_add_issues(category_add_issue(category, Head(issues)), Tail(issues))

\* ModelValidationResult(is_valid=True, ...)
NewModelResult == [is_valid |-> TRUE, issues |-> <<>>, categories |-> <<>>]

\* ModelValidationResult.add_category: categories is a dict keyed by name
add_category(result, category) ==
    [is_valid |-> result.is_valid /\ category.passed,
     issues |-> result.issues \o category.issues,
     categories |->
        IF \E i \in 1..Len(result.categories) : result.categories[i].name = category.name
        THEN [i \in 1..Len(result.categories) |->
                IF result.categories[i].name = category.name
                THEN category ELSE result.categories[i]]
        ELSE Append(result.categories, category)]

is_empty(value) ==
    IF IsNone(value) THEN TRUE
    ELSE IF IsBool(value) THEN FALSE
    ELSE Len(Strip(value)) = 0 \/ Upper(Strip(value)) = Upper(NULL_VALUE)

(***************************************************************************)
(* Level 3: the passes of FullModelValidator.validate.  self is the record *)
(* of the validator's fields.                                              *)
(***************************************************************************)
validate_catalog_integrity(self) == self.build_issues

validate_assessment_catalog(self) ==
    LET g == self.grouped_nodes
        a == self.assessments
    IN  Concat([i \in 1..Len(g) |->
                  IF ~HasKey(a, g[i].key)
                  THEN <<ValidationIssue(g[i].sheet, g[i].row, "assessmentCode", "error",
                            "assessmentCode not found in Assessments catalog", g[i].key)>>
                  ELSE <<>>])
        \o
        Concat([i \in 1..Len(a) |->
                  IF a[i].moduleCode # NULL_VALUE /\ ~HasKey(self.modules, a[i].moduleCode)
                  THEN <<ValidationIssue(a[i].sheet, a[i].row, "moduleCode", "error",
                            "moduleCode not found in Modules catalog", a[i].moduleCode)>>
                  ELSE <<>>])

\* src/validation/base.py: DURATION_MATRIX, as <<min_duration_secs, max_duration_secs>>
DURATION_MATRIX ==
    (<<"ENUMERATION">> :> (<<"TRUE">> :> <<5, 8>> @@ <<"FALSE">> :> <<15, 20>>
                           @@ <<"DELEGATE">> :> <<10, 14>>))
    @@ (<<"INTEGER">> :> (<<"TRUE">> :> <<5, 8>> @@ <<"FALSE">> :> <<15, 20>>
                          @@ <<"DELEGATE">> :> <<10, 14>>))
    @@ (<<"STATEMENT">> :> (<<"TRUE">> :> <<5, 8>> @@ <<"FALSE">> :> <<8, 12>>))
    @@ (<<"CONVERSATION">> :> (<<"TRUE">> :> <<15, 30>> @@ <<"FALSE">> :> <<15, 60>>
                               @@ <<"DELEGATE">> :> <<15, 30>>))

\* seconds contributed by one node: k = 1 for the minimum, 2 for the maximum
node_secs(node, k) ==
    IF node.dataType \in DOMAIN DURATION_MATRIX
    THEN IF node.isDeterministic \in DOMAIN DURATION_MATRIX[node.dataType]
         THEN DURATION_MATRIX[node.dataType][node.isDeterministic][k]
         ELSE 0
    ELSE 0

RECURSIVE sum_secs(_, _)
sum_secs(nodes, k) ==
    IF nodes = <<>> THEN 0 ELSE node_secs(Head(nodes), k) + sum_secs(Tail(nodes), k)

\* str(n) for a natural number
Digit(d) == CASE d = 0 -> "0" [] d = 1 -> "1" [] d = 2 -> "2" [] d = 3 -> "3"
              [] d = 4 -> "4" [] d = 5 -> "5" [] d = 6 -> "6" [] d = 7 -> "7"
              [] d = 8 -> "8" [] d = 9 -> "9"

RECURSIVE IntStr(_)
IntStr(n) == IF n < 10 THEN <<Digit(n)>> ELSE Append(IntStr(n \div 10), Digit(n % 10))

duration_str(nodes) ==
    LET min_mins == (sum_secs(nodes, 1) + 59) \div 60
        max_mins == (sum_secs(nodes, 2) + 59) \div 60
    IN  IF min_mins = max_mins
        THEN IntStr(min_mins) \o <<" ", IF min_mins # 1 THEN "minutes" ELSE "minute">>
        ELSE IntStr(min_mins) \o <<" ", "-", " ">> \o IntStr(max_mins) \o <<" ", "minutes">>

\* acc = [assessments, issues]; i runs over self.grouped_nodes
RECURSIVE calculate_assessment_durations(_, _, _)
calculate_assessment_durations(grouped_nodes, i, acc) ==
    IF i > Len(grouped_nodes) THEN acc
    ELSE
      LET assessment_id == grouped_nodes[i].key
          a == acc.assessments
          d == duration_str(grouped_nodes[i].nodes)
      IN  IF HasKey(a, assessment_id)
             /\ LET specified == Lookup(a, assessment_id).estimatedDuration
                IN  specified = NULL_VALUE \/ is_empty(specified)
          THEN calculate_assessment_durations(grouped_nodes, i + 1,
                 [assessments |->
                     [j \in 1..Len(a) |->
                        IF a[j].key = assessment_id
                        THEN [a[j] EXCEPT !.estimatedDuration = d] ELSE a[j]],
                  issues |-> Append(acc.issues,
                     ValidationIssue("Assessments", Lookup(a, assessment_id).row,
                                     "estimatedDuration", "info",
                                     "Calculated duration", <<assessment_id, d>>))])
          ELSE calculate_assessment_durations(grouped_nodes, i + 1, acc)

\* the issues of one enumerationType; seen is the set seen_values
RECURSIVE validate_enumeration_values(_, _, _, _)
validate_enumeration_values(enum_type, value_list, k, seen) ==
    IF k > Len(value_list) THEN <<>>
    ELSE
      LET item == value_list[k]
          value_issue ==
              IF item.value = NULL_VALUE
              THEN <<ValidationIssue(item.sheet, item.row, "value", "error",
                                     "enumerationType - missing value", enum_type)>>
              ELSE IF item.value \in seen
              THEN <<ValidationIssue(item.sheet, item.row, "value", "error",
                                     "enumerationType - duplicate value",
                                     <<enum_type, item.value>>)>>
              ELSE <<>>
          tags_issue ==
              IF item.tags # NULL_VALUE /\ ~ContainsSub(item.tags, <<"DELEGATE=">>)
              THEN <<ValidationIssue(item.sheet, item.row, "tags", "error",
                                     "Invalid tags - only 'DELEGATE=' supported", item.tags)>>
              ELSE <<>>
          seen1 == IF item.value # NULL_VALUE THEN seen \cup {item.value} ELSE seen
      IN  value_issue \o tags_issue
          \o validate_enumeration_values(enum_type, value_list, k + 1, seen1)

validate_enumerations(self) ==
    Concat([i \in 1..Len(self.enumerations) |->
              validate_enumeration_values(self.enumerations[i].key,
                                          self.enumerations[i].values, 1, {})])

\* the target list of a node: split on "|" if there is one, else on ","
target_list(target) ==
    LET parts == IF \E i \in 1..Len(target) : target[i] = "|"
                 THEN SplitBy(target, "|") ELSE SplitBy(target, ",")
    IN  [k \in 1..Len(parts) |-> Strip(parts[k])]

validate_assessment_node(self, node, node_id_set) ==
    LET enum_issue ==
            IF /\ node.dataType = <<"ENUMERATION">>
               /\ node.enumerationType # NULL_VALUE
               /\ ~HasKey(self.enumerations, node.enumerationType)
            THEN <<ValidationIssue(node.sheet, node.row, "enumerationType", "error",
                                   "Invalid enumerationType", node.enumerationType)>>
            ELSE <<>>
        targets == target_list(node.target)
        target_issues ==
            IF node.target # NULL_VALUE
            THEN Concat([k \in 1..Len(targets) |->
                    IF /\ targets[k] \notin node_id_set
                       /\ targets[k] # <<"EXIT">>
                       /\ targets[k] # NULL_VALUE
                    THEN <<ValidationIssue(node.sheet, node.row, "target", "error",
                                           "target not found in assessment", targets[k])>>
                    ELSE <<>>])
            ELSE <<>>
    IN  enum_issue \o target_issues

validate_assessments(self) ==
    Concat([i \in 1..Len(self.grouped_nodes) |->
        LET node_list == self.grouped_nodes[i].nodes
            node_id_set == {node_list[k].nodeId : k \in
                               {k \in 1..Len(node_list) :
                                    /\ node_list[k].nodeId # NULL_VALUE
                                    /\ ~is_comment(node_list[k].nodeId)}}
        IN  Concat([k \in 1..Len(node_list) |->
                      validate_assessment_node(self, node_list[k], node_id_set)])])

\* src/validation/base.py: VALID_RELATIONSHIP_TYPE_CODES
VALID_RELATIONSHIP_TYPE_CODES ==
    {<<"DIFFERENTIAL">>, <<"COMORBID">>, <<"SUBTYPE">>, <<"EXCLUDES">>, <<"RELATED">>}

validate_findings_relationships(self) ==
    Concat([i \in 1..Len(self.findings_relationships) |->
        LET item == self.findings_relationships[i]
        IN  (IF ~HasKey(self.findings, item.sourceFindingCode)
             THEN <<ValidationIssue(item.sheet, item.row, "sourceFindingCode", "error",
                                    "Invalid sourceFindingCode", item.sourceFindingCode)>>
             ELSE <<>>)
            \o
            (IF ~HasKey(self.findings, item.targetFindingCode)
             THEN <<ValidationIssue(item.sheet, item.row, "targetFindingCode", "error",
                                    "Invalid targetFindingCode", item.targetFindingCode)>>
             ELSE <<>>)
            \o
            (IF /\ item.relationshipTypeCode # NULL_VALUE
                /\ item.relationshipTypeCode \notin VALID_RELATIONSHIP_TYPE_CODES
             THEN <<ValidationIssue(item.sheet, item.row, "relationshipTypeCode",
                                    "warning", "Unexpected relationshipTypeCode",
                                    item.relationshipTypeCode)>>
             ELSE <<>>)])

(***************************************************************************)
(* Python's eval on an algorithm expression, for the expression alphabet:  *)
(* names, integer and string literals, True/False, calls with at most one  *)
(* argument, attribute access, comparisons, not/and/or and parentheses.    *)
(* Arithmetic and other operators are not part of the alphabet.            *)
(***************************************************************************)
\* the attribute name of a lexeme ".name("
DotCallName(c) ==
    CASE c = ".response(" -> "response" [] c = ".RESPONSE(" -> "RESPONSE"
      [] c = ".responses(" -> "responses" [] c = ".RESPONSES(" -> "RESPONSES"
      [] OTHER -> ""

\* the name part of a call lexeme, as a word lexeme
NameOfCall(c) ==
    CASE c = "fact(" -> "fact" [] c = "FACT(" -> "FACT" [] c = "Fact(" -> "Fact"
      [] c = "facts(" -> "facts" [] c = "FACTS(" -> "FACTS"
      [] c = "groups(" -> "groups" [] c = "GROUPS(" -> "GROUPS" [] c = "Groups(" -> "Groups"
      [] c = "group(" -> "group" [] c = "GROUP(" -> "GROUP"
      [] c = "is_complete(" -> "is_complete" [] c = "IS_COMPLETE(" -> "IS_COMPLETE"
      [] c = "not(" -> "not" [] c = "NOT(" -> "NOT" [] c = "Not(" -> "Not"
      [] OTHER -> ""

OpLexemes == {"==", "!=", "<", ">", "<=", ">=", "=", "=>", "=<", "&&", "||"}
PunctLexemes == {"(", ")", ",", "."}
DigitLexemes == {"0", "1", "2", "3", "4", "5", "6", "7", "8", "9"}

\* lexemes that are (part of) a Python identifier or number
IsWordLex(c) ==
    /\ c \notin OpLexemes \cup PunctLexemes \cup {" ", "'"}
    /\ NameOfCall(c) = ""
    /\ DotCallName(c) = ""

Tok(t, v) == [t |-> t, v |-> v]
BadTok == Tok("bad", <<>>)

\* the token of a maximal run w of word lexemes
WordToken(w) ==
    IF Len(w) = 1 /\ w[1] \in {"and", "or", "not", "True", "False"} THEN Tok("kw", w)
    ELSE IF \A i \in 1..Len(w) : w[i] \in DigitLexemes
         THEN (IF Len(w) > 1 /\ w[1] = "0" /\ \E i \in 1..Len(w) : w[i] # "0"
               THEN BadTok ELSE Tok("num", w))
    ELSE IF w[1] \in DigitLexemes THEN BadTok
    ELSE Tok("name", w)

Flush(w) == IF w = <<>> THEN <<>> ELSE <<WordToken(w)>>

\* position of the first "'" at or after i, or 0
NextQuote(s, i) ==
    IF \E j \in i..Len(s) : s[j] = "'"
    THEN CHOOSE j \in i..Len(s) : s[j] = "'" /\ \A k \in i..(j - 1) : s[k] # "'"
    ELSE 0

StringPrefixes == {<<"f">>, <<"F">>, <<"r">>, <<"R">>, <<"u">>, <<"U">>}

\* the Python tokens of s from lexeme i on; w is the word being read
RECURSIVE Tokens(_, _, _)
Tokens(s, i, w) ==
    IF i > Len(s) THEN Flush(w)
    ELSE
      LET c == s[i]
      IN  IF c = " " THEN Flush(w) \o Tokens(s, i + 1, <<>>)
          \* a comment runs to the end of the expression
          ELSE IF c = "#" THEN Flush(w)
          ELSE IF c = "'"
          THEN LET q == NextQuote(s, i + 1)
                   \* f'..', r'..' and u'..' are string literals too
                   pre == IF w \in StringPrefixes THEN <<>> ELSE Flush(w)
               IN  IF q = 0 THEN pre \o <<BadTok>>
                   ELSE pre \o <<Tok("str", SubSeq(s, i + 1, q - 1))>>
                        \o Tokens(s, q + 1, <<>>)
          ELSE IF NameOfCall(c) # ""
          THEN Flush(Append(w, NameOfCall(c))) \o <<Tok("p", <<"(">>)>>
               \o Tokens(s, i + 1, <<>>)
          ELSE IF DotCallName(c) # ""
          THEN Flush(w) \o <<Tok("p", <<".">>), Tok("name", <<DotCallName(c)>>),
                             Tok("p", <<"(">>)>>
               \o Tokens(s, i + 1, <<>>)
          ELSE IF c \in PunctLexemes
          THEN Flush(w) \o <<Tok("p", <<c>>)>> \o Tokens(s, i + 1, <<>>)
          ELSE IF c \in {"==", "!=", "<", ">", "<=", ">="}
          THEN Flush(w) \o <<Tok("cmp", <<c>>)>> \o Tokens(s, i + 1, <<>>)
          ELSE IF c \in OpLexemes
          THEN Flush(w) \o <<BadTok>>
          ELSE Tokens(s, i + 1, Append(w, c))

\* parse results: [ok, node, pos], pos being the next unread token
POk(node, pos) == [ok |-> TRUE, node |-> node, pos |-> pos]
PFail == [ok |-> FALSE, node |-> <<>>, pos |-> 0]

IsTok(toks, p, t, v) == p <= Len(toks) /\ toks[p] = Tok(t, <<v>>)

RECURSIVE parse_or(_, _), parse_or_rest(_, _, _), parse_and(_, _),
          parse_and_rest(_, _, _), parse_not(_, _), parse_comparison(_, _),
          parse_comparison_rest(_, _, _, _), parse_atom_expr(_, _),
          parse_trailers(_, _, _), parse_atom(_, _), parse_strings(_, _, _)

\* or_test: and_test ('or' and_test)*
parse_or(toks, p) ==
    LET Rest(l) == IF ~l.ok THEN PFail ELSE parse_or_rest(toks, l.pos, <<l.node>>)
    IN  Rest(parse_and(toks, p))

parse_or_rest(toks, p, acc) ==
    IF IsTok(toks, p, "kw", "or")
    THEN LET Rest(r) ==
                 IF ~r.ok THEN PFail ELSE parse_or_rest(toks, r.pos, Append(acc, r.node))
         IN  Rest(parse_and(toks, p + 1))
    ELSE POk(IF Len(acc) = 1 THEN acc[1] ELSE [k |-> "or", args |-> acc], p)

\* and_test: not_test ('and' not_test)*
parse_and(toks, p) ==
    LET Rest(l) == IF ~l.ok THEN PFail ELSE parse_and_rest(toks, l.pos, <<l.node>>)
    IN  Rest(parse_not(toks, p))

parse_and_rest(toks, p, acc) ==
    IF IsTok(toks, p, "kw", "and")
    THEN LET Rest(r) ==
                 IF ~r.ok THEN PFail ELSE parse_and_rest(toks, r.pos, Append(acc, r.node))
         IN  Rest(parse_not(toks, p + 1))
    ELSE POk(IF Len(acc) = 1 THEN acc[1] ELSE [k |-> "and", args |-> acc], p)

\* not_test: 'not' not_test | comparison
parse_not(toks, p) ==
    IF IsTok(toks, p, "kw", "not")
    THEN LET Rest(r) ==
                 IF ~r.ok THEN PFail ELSE POk([k |-> "not", arg |-> r.node], r.pos)
         IN  Rest(parse_not(toks, p + 1))
    ELSE parse_comparison(toks, p)

\* comparison: atom_expr (comp_op atom_expr)*
parse_comparison(toks, p) ==
    LET Rest(l) ==
            IF ~l.ok THEN PFail ELSE parse_comparison_rest(toks, l.pos, l.node, <<>>)
    IN  Rest(parse_atom_expr(toks, p))

\* rest is the sequence of <<operator, operand>> read so far
parse_comparison_rest(toks, p, first, rest) ==
    IF p <= Len(toks) /\ toks[p].t = "cmp"
    THEN LET Rest(r) ==
                 IF ~r.ok THEN PFail
                 ELSE parse_comparison_rest(toks, r.pos, first,
                                            Append(rest, <<toks[p].v[1], r.node>>))
         IN  Rest(parse_atom_expr(toks, p + 1))
    ELSE POk(IF rest = <<>> THEN first
             ELSE [k |-> "cmp", first |-> first, rest |-> rest], p)

\* atom_expr: atom trailer*
parse_atom_expr(toks, p) ==
    LET Rest(a) == IF ~a.ok THEN PFail ELSE parse_trailers(toks, a.pos, a.node)
    IN  Rest(parse_atom(toks, p))

\* trailer: '(' [argument] ')' | '.' NAME
parse_trailers(toks, p, node) ==
    IF IsTok(toks, p, "p", "(")
    THEN IF IsTok(toks, p + 1, "p", ")")
         THEN parse_trailers(toks, p + 2, [k |-> "call", f |-> node, args |-> <<>>])
         ELSE LET Rest(a) ==
                      IF a.ok /\ IsTok(toks, a.pos, "p", ")")
                      THEN parse_trailers(toks, a.pos + 1,
                                          [k |-> "call", f |-> node, args |-> <<a.node>>])
                      ELSE PFail
              IN  Rest(parse_or(toks, p + 1))
    ELSE IF IsTok(toks, p, "p", ".")
    THEN IF p + 1 <= Len(toks) /\ toks[p + 1].t = "name"
         THEN parse_trailers(toks, p + 2,
                             [k |-> "attr", obj |-> node, name |-> toks[p + 1].v])
         ELSE PFail
    ELSE POk(node, p)

\* adjacent string literals are concatenated
parse_strings(toks, p, acc) ==
    IF p <= Len(toks) /\ toks[p].t = "str"
    THEN parse_strings(toks, p + 1, acc \o toks[p].v)
    ELSE POk([k |-> "str", v |-> acc], p)

\* atom: NAME | NUMBER | STRING+ | 'True' | 'False' | '(' [or_test] ')'
parse_atom(toks, p) ==
    IF p > Len(toks) THEN PFail
    ELSE IF toks[p].t = "name" THEN POk([k |-> "name", id |-> toks[p].v], p + 1)
    ELSE IF toks[p].t = "num" THEN POk([k |-> "num", v |-> toks[p].v], p + 1)
    ELSE IF toks[p].t = "str" THEN parse_strings(toks, p, <<>>)
    ELSE IF IsTok(toks, p, "kw", "True") THEN POk([k |-> "const", v |-> TRUE], p + 1)
    ELSE IF IsTok(toks, p, "kw", "False") THEN POk([k |-> "const", v |-> FALSE], p + 1)
    ELSE IF IsTok(toks, p, "p", "(")
    THEN IF IsTok(toks, p + 1, "p", ")") THEN POk([k |-> "tuple"], p + 2)
         ELSE LET Rest(e) == IF e.ok /\ IsTok(toks, e.pos, "p", ")")
                             THEN POk(e.node, e.pos + 1) ELSE PFail
              IN  Rest(parse_or(toks, p + 1))
    ELSE PFail

\* Python values: bool, int, str, a Group instance, the callables fact,
\* groups and is_complete, the bound method Group.response, the empty
\* tuple, the local classes, the validator itself, and a raised exception
VBool(b) == [t |-> "bool", v |-> b]
VInt(n) == [t |-> "int", v |-> n]
VStr(s) == [t |-> "str", v |-> s]
VGroup == [t |-> "Group", v |-> 0]
VFn(name) == [t |-> "fn", v |-> name]
VMethod == [t |-> "method", v |-> 0]
VTuple == [t |-> "tuple", v |-> 0]
VClass(name) == [t |-> "class", v |-> name]
VObject == [t |-> "object", v |-> 0]
VErr(kind, what) == [t |-> "err", v |-> <<kind, what>>]

IsErr(x) == x.t = "err"

DigitVal(c) == CHOOSE d \in 0..9 : Digit(d) = c

RECURSIVE NumVal(_)
NumVal(w) == IF w = <<>> THEN 0 ELSE 10 * NumVal(SubSeq(w, 1, Len(w) - 1)) + DigitVal(w[Len(w)])

\* bool(x)
Truth(x) ==
    CASE x.t = "bool" -> x.v
      [] x.t = "int" -> x.v # 0
      [] x.t = "str" -> x.v # <<>>
      [] x.t = "tuple" -> FALSE
      [] OTHER -> TRUE

IsNumber(x) == x.t \in {"bool", "int"}
AsInt(x) == IF x.t = "bool" THEN (IF x.v THEN 1 ELSE 0) ELSE x.v

\* code point order of the characters used in string literals
CharOrder == <<"0", "1", "2", "3", "4", "5", "6", "7", "8", "9",
               "A", "F", "G", "M", "N", "O", "P", "X", "f", "g", "x">>
Ord(c) == IF \E i \in 1..Len(CharOrder) : CharOrder[i] = c
          THEN CHOOSE i \in 1..Len(CharOrder) : CharOrder[i] = c
          ELSE 0

RECURSIVE StrLess(_, _)
StrLess(a, b) ==
    IF b = <<>> THEN FALSE
    ELSE IF a = <<>> THEN TRUE
    ELSE IF Head(a) = Head(b) THEN StrLess(Tail(a), Tail(b))
    ELSE Ord(Head(a)) < Ord(Head(b))

\* x == y
PyEq(x, y) ==
    IF IsNumber(x) /\ IsNumber(y) THEN AsInt(x) = AsInt(y)
    ELSE IF x.t = "str" /\ y.t = "str" THEN x.v = y.v
    ELSE IF x.t = "fn" /\ y.t = "fn" THEN x.v = y.v
    ELSE IF x.t = "tuple" /\ y.t = "tuple" THEN TRUE
    ELSE FALSE

\* x op y for op in == != < > <= >=
Compare(op, x, y) ==
    IF op = "==" THEN VBool(PyEq(x, y))
    ELSE IF op = "!=" THEN VBool(~PyEq(x, y))
    ELSE IF IsNumber(x) /\ IsNumber(y)
    THEN VBool(CASE op = "<" -> AsInt(x) < AsInt(y)
                 [] op = ">" -> AsInt(x) > AsInt(y)
                 [] op = "<=" -> AsInt(x) <= AsInt(y)
                 [] op = ">=" -> AsInt(x) >= AsInt(y))
    ELSE IF x.t = "str" /\ y.t = "str"
    THEN VBool(CASE op = "<" -> StrLess(x.v, y.v)
                 [] op = ">" -> StrLess(y.v, x.v)
                 [] op = "<=" -> ~StrLess(y.v, x.v)
                 [] op = ">=" -> ~StrLess(x.v, y.v))
    ELSE IF x.t = "tuple" /\ y.t = "tuple" THEN VBool(op \in {"<=", ">="})
    ELSE VErr("TypeError", <<op, x.t, y.t>>)

\* f(*args) for evaluated f and args
Call(f, args) ==
    IF f.t = "class"
    THEN (IF f.v = "Group" THEN VGroup
          ELSE IF args # <<>> THEN VErr("TypeError", <<f.v, "arity">>)
          ELSE VFn(CASE f.v = "Fact" -> "fact" [] f.v = "Groups" -> "groups"
                     [] f.v = "IsComplete" -> "is_complete"))
    ELSE IF f.t = "fn" /\ f.v \in {"fact", "is_complete"} THEN VBool(TRUE)
    ELSE IF f.t = "fn" /\ f.v = "groups" THEN VGroup
    ELSE IF f.t = "method"
    THEN (IF Len(args) = 1 THEN VInt(1) ELSE VErr("TypeError", <<"response", "arity">>))
    ELSE VErr("TypeError", <<"not callable", f.t>>)

RECURSIVE Eval(_, _), EvalBoolOp(_, _, _, _), EvalChain(_, _, _, _)

\* the value of an expression tree, in Python's evaluation order; the
\* names in scope are the locals of _test_algorithm_syntax
Eval(n, algorithm) ==
    CASE n.k = "const" -> VBool(n.v)
      [] n.k = "num" -> VInt(NumVal(n.v))
      [] n.k = "str" -> VStr(n.v)
      [] n.k = "tuple" -> VTuple
      [] n.k = "name" ->
            IF n.id \in {<<"fact">>, <<"groups">>, <<"is_complete">>} THEN VFn(n.id[1])
            ELSE IF n.id \in {<<"Fact">>, <<"Groups">>, <<"Group">>, <<"IsComplete">>}
            THEN VClass(n.id[1])
            ELSE IF n.id = <<"algorithm">> THEN VStr(algorithm)
            ELSE IF n.id = <<"self">> THEN VObject
            ELSE VErr("NameError", n.id)
      [] n.k = "not" ->
            LET x == Eval(n.arg, algorithm) IN IF IsErr(x) THEN x ELSE VBool(~Truth(x))
      [] n.k = "and" -> EvalBoolOp(n.args, 1, FALSE, algorithm)
      [] n.k = "or" -> EvalBoolOp(n.args, 1, TRUE, algorithm)
      [] n.k = "cmp" ->
            LET x == Eval(n.first, algorithm)
            IN  IF IsErr(x) THEN x ELSE EvalChain(x, n.rest, 1, algorithm)
      [] n.k = "attr" ->
            LET x == Eval(n.obj, algorithm)
            IN  IF IsErr(x) THEN x
                ELSE IF x.t = "Group" /\ n.name = <<"response">> THEN VMethod
                ELSE VErr("AttributeError", <<x.t, n.name>>)
      [] n.k = "call" ->
            LET f == Eval(n.f, algorithm)
            IN  IF IsErr(f) THEN f
                ELSE IF n.args = <<>> THEN Call(f, <<>>)
                ELSE LET a == Eval(n.args[1], algorithm)
                     IN  IF IsErr(a) THEN a ELSE Call(f, <<a>>)

\* x1 and x2 ... (stop = FALSE) or x1 or x2 ... (stop = TRUE): the first
\* operand whose truth is stop, else the last one
EvalBoolOp(args, i, stop, algorithm) ==
    LET x == Eval(args[i], algorithm)
    IN  IF IsErr(x) \/ i = Len(args) \/ Truth(x) = stop THEN x
        ELSE EvalBoolOp(args, i + 1, stop, algorithm)

\* a op1 b op2 c ...: left is the evaluated left operand of rest[i]
EvalChain(left, rest, i, algorithm) ==
    LET right == Eval(rest[i][2], algorithm)
        r == IF IsErr(right) THEN right ELSE Compare(rest[i][1], left, right)
    IN  IF IsErr(r) \/ i = Len(rest) \/ ~Truth(r) THEN r
        ELSE EvalChain(right, rest, i + 1, algorithm)

\* eval(algorithm): the exception raised, or NoneV when there is none
eval_error(algorithm) ==
    LET toks == Tokens(algorithm, 1, <<>>)
        tree == parse_or(toks, 1)
    IN  IF ~tree.ok \/ tree.pos # Len(toks) + 1 THEN <<"SyntaxError">>
        ELSE LET x == Eval(tree.node, algorithm)
             IN  IF IsErr(x) THEN x.v ELSE NoneV

\* None, or the error of "Syntax error: {str(e)}"
test_algorithm_syntax(algorithm) ==
    IF Lower(algorithm) = <<"start">> \/ algorithm = NULL_VALUE THEN NoneV
    ELSE eval_error(algorithm)

(***************************************************************************)
(* Level 3: the Algorithms pass                                            *)
(***************************************************************************)
\* re.findall(name\(['"]([^'"]+)['"]\), s, re.IGNORECASE) from lexeme i on,
\* heads being the lexemes that spell name( in some case
RECURSIVE find_refs(_, _, _)
find_refs(s, i, heads) ==
    IF i > Len(s) THEN <<>>
    ELSE IF s[i] \in heads /\ i + 1 <= Len(s) /\ s[i + 1] = "'"
    THEN LET q == NextQuote(s, i + 2)
         IN  IF q > i + 2 /\ q + 1 <= Len(s) /\ s[q + 1] = ")"
             THEN <<SubSeq(s, i + 2, q - 1)>> \o find_refs(s, q + 2, heads)
             ELSE find_refs(s, i + 1, heads)
    ELSE find_refs(s, i + 1, heads)

FactHeads == {"fact(", "FACT(", "Fact("}
GroupsHeads == {"groups(", "GROUPS(", "Groups("}

\* whether the first / last character of a lexeme is a word character (\w)
WordStart(c) == IsWordLex(c) \/ NameOfCall(c) # ""
WordEnd(c) == IsWordLex(c)

\* a match of \band\b|\bor\b (re.IGNORECASE) at lexeme i
IsAndOr(s, i) ==
    /\ LowerLex(s[i]) \in {"and", "or"}
    /\ (i = 1 \/ ~WordEnd(s[i - 1]))
    /\ (i = Len(s) \/ ~WordStart(s[i + 1]))

\* re.split(r'\band\b|\bor\b', s, flags=re.IGNORECASE) from lexeme i on,
\* cur being the term read so far
RECURSIVE split_terms(_, _, _)
split_terms(s, i, cur) ==
    IF i > Len(s) THEN <<cur>>
    ELSE IF IsAndOr(s, i) THEN <<cur>> \o split_terms(s, i + 1, <<>>)
    ELSE split_terms(s, i + 1, Append(cur, s[i]))

\* the characters of a lexeme that matter to the operator pattern; every
\* other character is written "x"
OpChars(c) ==
    CASE c = "==" -> <<"=", "=">> [] c = "!=" -> <<"!", "=">>
      [] c = "<=" -> <<"<", "=">> [] c = ">=" -> <<">", "=">>
      [] c = "=>" -> <<"=", ">">> [] c = "=<" -> <<"=", "<">>
      [] c \in {"<", ">", "="} -> <<c>>
      [] c \in {"<NULL>", "<null>"} -> <<"<", "x", ">">>
      [] c \in {"delegate=", "DELEGATE="} -> <<"x", "=">>
      [] OTHER -> <<"x">>

\* re.search(r'>=|<=|(?<![=!])>(?!=)|(?<![=!])<(?!=)', term)
has_ordering_operator(term) ==
    LET cs == Concat([i \in 1..Len(term) |-> OpChars(term[i])])
    IN  \E i \in 1..Len(cs) :
           /\ cs[i] \in {"<", ">"}
           /\ \/ (i < Len(cs) /\ cs[i + 1] = "=")
              \/ /\ (i = 1 \/ cs[i - 1] \notin {"=", "!"})
                 /\ (i = Len(cs) \/ cs[i + 1] # "=")

\* re.search(r'fact\s*\(', term, re.IGNORECASE)
has_fact_call(term) == \E i \in 1..Len(term) : term[i] \in FactHeads

\* the term checks without the rule on ordering operators;
\* C5_EqualityCleanOrderingOneErrorPerRule tells it from validate_algorithm_terms
validate_algorithm_terms_unordered(self, algo) ==
    LET fact_matches == find_refs(algo.algorithm, 1, FactHeads)
        group_matches == find_refs(algo.algorithm, 1, GroupsHeads)
    IN  Concat([k \in 1..Len(fact_matches) |->
                  IF Upper(fact_matches[k]) \notin self.fact_id_set
                  THEN <<ValidationIssue(algo.sheet, algo.row, "algorithm", "error",
                                         "Invalid factId", fact_matches[k])>>
                  ELSE <<>>])
        \o
        Concat([k \in 1..Len(group_matches) |->
                  IF Upper(group_matches[k]) \notin self.fact_group_set
                  THEN <<ValidationIssue(algo.sheet, algo.row, "algorithm", "error",
                                         "Invalid factGroup", group_matches[k])>>
                  ELSE <<>>])

validate_algorithm_terms(self, algo) ==
    LET algorithm == algo.algorithm
        fact_matches == find_refs(algorithm, 1, FactHeads)
        terms == split_terms(algorithm, 1, <<>>)
        group_matches == find_refs(algorithm, 1, GroupsHeads)
    IN  Concat([k \in 1..Len(fact_matches) |->
                  IF Upper(fact_matches[k]) \notin self.fact_id_set
                  THEN <<ValidationIssue(algo.sheet, algo.row, "algorithm", "error",
                                         "Invalid factId", fact_matches[k])>>
                  ELSE <<>>])
        \o
        (IF /\ fact_matches # <<>>
            /\ \E k \in 1..Len(terms) :
                  has_fact_call(terms[k]) /\ has_ordering_operator(terms[k])
         THEN <<ValidationIssue(algo.sheet, algo.row, "algorithm", "error",
                  "Comparison operators cannot be used with fact() expressions",
                  algo.originalAlgorithm)>>
         ELSE <<>>)
        \o
        Concat([k \in 1..Len(group_matches) |->
                  IF Upper(group_matches[k]) \notin self.fact_group_set
                  THEN <<ValidationIssue(algo.sheet, algo.row, "algorithm", "error",
                                         "Invalid factGroup", group_matches[k])>>
                  ELSE <<>>])

\* src/validation/base.py: VALID_ALGORITHM_EVENTS
VALID_ALGORITHM_EVENTS == {<<"MODULE">>, <<"ASSESSMENT">>, <<"FINDING">>}

\* " not " in algorithm.lower() or "not(" in algorithm.lower()
uses_not(algorithm) ==
    LET l == Lower(algorithm)
    IN  \/ ContainsSub(l, <<" ", "not", " ">>)
        \/ \E i \in 1..Len(l) :
              \/ l[i] = "not("
              \/ l[i] = "not" /\ i < Len(l) /\ l[i + 1] = "("

\* the event-specific check without the lookup of the assessmentCode in the
\* catalog; C3_OneErrorPerUnresolvedCode tells it from validate_algorithm_event
validate_algorithm_event_unresolved(self, algo) ==
    IF algo.event = <<"MODULE">>
    THEN (IF is_empty(algo.moduleCode) \/ algo.moduleCode = NULL_VALUE
          THEN <<ValidationIssue(algo.sheet, algo.row, "moduleCode", "error",
                                 "MODULE event requires moduleCode", <<>>)>>
          ELSE IF ~HasKey(self.modules, algo.moduleCode)
          THEN <<ValidationIssue(algo.sheet, algo.row, "moduleCode", "error",
                                 "Invalid moduleCode", algo.moduleCode)>>
          ELSE <<>>)
    ELSE IF algo.event = <<"ASSESSMENT">>
    THEN (IF is_empty(algo.assessmentCode) \/ algo.assessmentCode = NULL_VALUE
          THEN <<ValidationIssue(algo.sheet, algo.row, "assessmentCode", "error",
                                 "ASSESSMENT event requires assessmentCode", <<>>)>>
          ELSE <<>>)
    ELSE (IF is_empty(algo.findingCode) \/ algo.findingCode = NULL_VALUE
          THEN <<ValidationIssue(algo.sheet, algo.row, "findingCode", "warning",
                                 "FINDING event missing findingCode", <<>>)>>
          ELSE IF ~HasKey(self.findings, algo.findingCode)
          THEN <<ValidationIssue(algo.sheet, algo.row, "findingCode", "error",
                                 "Invalid findingCode", algo.findingCode)>>
          ELSE <<>>)

\* the event-specific check with a missing findingCode raised to an error;
\* C24_FindingCodeWarningErrorOrNothing tells it from validate_algorithm_event
validate_algorithm_event_requiring(self, algo) ==
    IF algo.event = <<"MODULE">>
    THEN (IF is_empty(algo.moduleCode) \/ algo.moduleCode = NULL_VALUE
          THEN <<ValidationIssue(algo.sheet, algo.row, "moduleCode", "error",
                                 "MODULE event requires moduleCode", <<>>)>>
          ELSE IF ~HasKey(self.modules, algo.moduleCode)
          THEN <<ValidationIssue(algo.sheet, algo.row, "moduleCode", "error",
                                 "Invalid moduleCode", algo.moduleCode)>>
          ELSE <<>>)
    ELSE IF algo.event = <<"ASSESSMENT">>
    THEN (IF is_empty(algo.assessmentCode) \/ algo.assessmentCode = NULL_VALUE
          THEN <<ValidationIssue(algo.sheet, algo.row, "assessmentCode", "error",
                                 "ASSESSMENT event requires assessmentCode", <<>>)>>
          ELSE IF ~HasKey(self.assessments, algo.assessmentCode)
          THEN <<ValidationIssue(algo.sheet, algo.row, "assessmentCode", "error",
                                 "Invalid assessmentCode", algo.assessmentCode)>>
          ELSE <<>>)
    ELSE (IF is_empty(algo.findingCode) \/ algo.findingCode = NULL_VALUE
          THEN <<ValidationIssue(algo.sheet, algo.row, "findingCode", "error",
                                 "FINDING event missing findingCode", <<>>)>>
          ELSE IF ~HasKey(self.findings, algo.findingCode)
          THEN <<ValidationIssue(algo.sheet, algo.row, "findingCode", "error",
                                 "Invalid findingCode", algo.findingCode)>>
          ELSE <<>>)

\* the event-specific reference check of one algorithm entry
validate_algorithm_event(self, algo) ==
    IF algo.event = <<"MODULE">>
    THEN (IF is_empty(algo.moduleCode) \/ algo.moduleCode = NULL_VALUE
          THEN <<ValidationIssue(algo.sheet, algo.row, "moduleCode", "error",
                                 "MODULE event requires moduleCode", <<>>)>>
          ELSE IF ~HasKey(self.modules, algo.moduleCode)
          THEN <<ValidationIssue(algo.sheet, algo.row, "moduleCode", "error",
                                 "Invalid moduleCode", algo.moduleCode)>>
          ELSE <<>>)
    ELSE IF algo.event = <<"ASSESSMENT">>
    THEN (IF is_empty(algo.assessmentCode) \/ algo.assessmentCode = NULL_VALUE
          THEN <<ValidationIssue(algo.sheet, algo.row, "assessmentCode", "error",
                                 "ASSESSMENT event requires assessmentCode", <<>>)>>
          ELSE IF ~HasKey(self.assessments, algo.assessmentCode)
          THEN <<ValidationIssue(algo.sheet, algo.row, "assessmentCode", "error",
                                 "Invalid assessmentCode", algo.assessmentCode)>>
          ELSE <<>>)
    ELSE (IF is_empty(algo.findingCode) \/ algo.findingCode = NULL_VALUE
          THEN <<ValidationIssue(algo.sheet, algo.row, "findingCode", "warning",
                                 "FINDING event missing findingCode", <<>>)>>
          ELSE IF ~HasKey(self.findings, algo.findingCode)
          THEN <<ValidationIssue(algo.sheet, algo.row, "findingCode", "error",
                                 "Invalid findingCode", algo.findingCode)>>
          ELSE <<>>)

\* the issues of one entry of self.algorithms
validate_algorithm(self, algo) ==
    IF algo.event \notin VALID_ALGORITHM_EVENTS
    THEN <<ValidationIssue(algo.sheet, algo.row, "event", "error",
                           "Invalid event", algo.event)>>
    ELSE
      validate_algorithm_event(self, algo)
      \o
      (IF Lower(algo.algorithm) # <<"start">> /\ algo.algorithm # NULL_VALUE
       THEN (IF uses_not(algo.algorithm)
             THEN <<ValidationIssue(algo.sheet, algo.row, "algorithm", "error",
                                    "NOT operator is not allowed",
                                    algo.originalAlgorithm)>>
             ELSE <<>>)
            \o validate_algorithm_terms(self, algo)
       ELSE <<>>)
      \o
      (LET error == test_algorithm_syntax(algo.algorithm)
       IN  IF error # NoneV
           THEN <<ValidationIssue(algo.sheet, algo.row, "algorithm", "error",
                                  "Syntax error", error)>>
           ELSE <<>>)

validate_algorithms(self) ==
    Concat([i \in 1..Len(self.algorithms) |-> validate_algorithm(self, self.algorithms[i])])

(***************************************************************************)
(* Level 1: field and row validation (src/validation/field_validator.py)   *)
(***************************************************************************)
\* the characters of one lexeme: a vocabulary word is spelled out, any other
\* lexeme is one character
Spell(c) ==
    CASE c = "fact(" -> <<"f", "a", "c", "t", "(">>
      [] c = "FACT(" -> <<"F", "A", "C", "T", "(">>
      [] c = "Fact(" -> <<"F", "a", "c", "t", "(">>
      [] c = "facts(" -> <<"f", "a", "c", "t", "s", "(">>
      [] c = "FACTS(" -> <<"F", "A", "C", "T", "S", "(">>
      [] c = "groups(" -> <<"g", "r", "o", "u", "p", "s", "(">>
      [] c = "GROUPS(" -> <<"G", "R", "O", "U", "P", "S", "(">>
      [] c = "Groups(" -> <<"G", "r", "o", "u", "p", "s", "(">>
      [] c = "group(" -> <<"g", "r", "o", "u", "p", "(">>
      [] c = "GROUP(" -> <<"G", "R", "O", "U", "P", "(">>
      [] c = ".response(" -> <<".", "r", "e", "s", "p", "o", "n", "s", "e", "(">>
      [] c = ".RESPONSE(" -> <<".", "R", "E", "S", "P", "O", "N", "S", "E", "(">>
      [] c = ".responses(" -> <<".", "r", "e", "s", "p", "o", "n", "s", "e", "s", "(">>
      [] c = ".RESPONSES(" -> <<".", "R", "E", "S", "P", "O", "N", "S", "E", "S", "(">>
      [] c = "is_complete(" -> <<"i", "s", "_", "c", "o", "m", "p", "l", "e", "t", "e", "(">>
      [] c = "IS_COMPLETE(" -> <<"I", "S", "_", "C", "O", "M", "P", "L", "E", "T", "E", "(">>
      [] c = "not(" -> <<"n", "o", "t", "(">>
      [] c = "NOT(" -> <<"N", "O", "T", "(">>
      [] c = "Not(" -> <<"N", "o", "t", "(">>
      [] c = "and" -> <<"a", "n", "d">>
      [] c = "AND" -> <<"A", "N", "D">>
      [] c = "And" -> <<"A", "n", "d">>
      [] c = "or" -> <<"o", "r">>
      [] c = "OR" -> <<"O", "R">>
      [] c = "Or" -> <<"O", "r">>
      [] c = "not" -> <<"n", "o", "t">>
      [] c = "NOT" -> <<"N", "O", "T">>
      [] c = "Not" -> <<"N", "o", "t">>
      [] c = "True" -> <<"T", "r", "u", "e">>
      [] c = "TRUE" -> <<"T", "R", "U", "E">>
      [] c = "true" -> <<"t", "r", "u", "e">>
      [] c = "False" -> <<"F", "a", "l", "s", "e">>
      [] c = "FALSE" -> <<"F", "A", "L", "S", "E">>
      [] c = "false" -> <<"f", "a", "l", "s", "e">>
      [] c = "start" -> <<"s", "t", "a", "r", "t">>
      [] c = "START" -> <<"S", "T", "A", "R", "T">>
      [] c = "Start" -> <<"S", "t", "a", "r", "t">>
      [] c = "is_complete" -> <<"i", "s", "_", "c", "o", "m", "p", "l", "e", "t", "e">>
      [] c = "IS_COMPLETE" -> <<"I", "S", "_", "C", "O", "M", "P", "L", "E", "T", "E">>
      [] c = "<NULL>" -> <<"<", "N", "U", "L", "L", ">">>
      [] c = "<null>" -> <<"<", "n", "u", "l", "l", ">">>
      [] c = "COMMENT" -> <<"C", "O", "M", "M", "E", "N", "T">>
      [] c = "comment" -> <<"c", "o", "m", "m", "e", "n", "t">>
      [] c = "Comment" -> <<"C", "o", "m", "m", "e", "n", "t">>
      [] c = "YES" -> <<"Y", "E", "S">>
      [] c = "yes" -> <<"y", "e", "s">>
      [] c = "Yes" -> <<"Y", "e", "s">>
      [] c = "EXIT" -> <<"E", "X", "I", "T">>
      [] c = "exit" -> <<"e", "x", "i", "t">>
      [] c = "Exit" -> <<"E", "x", "i", "t">>
      [] c = "ENUMERATION" -> <<"E", "N", "U", "M", "E", "R", "A", "T", "I", "O", "N">>
      [] c = "enumeration" -> <<"e", "n", "u", "m", "e", "r", "a", "t", "i", "o", "n">>
      [] c = "Enumeration" -> <<"E", "n", "u", "m", "e", "r", "a", "t", "i", "o", "n">>
      [] c = "INTEGER" -> <<"I", "N", "T", "E", "G", "E", "R">>
      [] c = "integer" -> <<"i", "n", "t", "e", "g", "e", "r">>
      [] c = "Integer" -> <<"I", "n", "t", "e", "g", "e", "r">>
      [] c = "STATEMENT" -> <<"S", "T", "A", "T", "E", "M", "E", "N", "T">>
      [] c = "statement" -> <<"s", "t", "a", "t", "e", "m", "e", "n", "t">>
      [] c = "CONVERSATION" -> <<"C", "O", "N", "V", "E", "R", "S", "A", "T", "I", "O", "N">>
      [] c = "conversation" -> <<"c", "o", "n", "v", "e", "r", "s", "a", "t", "i", "o", "n">>
      [] c = "DELEGATE" -> <<"D", "E", "L", "E", "G", "A", "T", "E">>
      [] c = "delegate" -> <<"d", "e", "l", "e", "g", "a", "t", "e">>
      [] c = "DELEGATE=" -> <<"D", "E", "L", "E", "G", "A", "T", "E", "=">>
      [] c = "delegate=" -> <<"d", "e", "l", "e", "g", "a", "t", "e", "=">>
      [] c = "MODULE" -> <<"M", "O", "D", "U", "L", "E">>
      [] c = "module" -> <<"m", "o", "d", "u", "l", "e">>
      [] c = "ASSESSMENT" -> <<"A", "S", "S", "E", "S", "S", "M", "E", "N", "T">>
      [] c = "assessment" -> <<"a", "s", "s", "e", "s", "s", "m", "e", "n", "t">>
      [] c = "FINDING" -> <<"F", "I", "N", "D", "I", "N", "G">>
      [] c = "finding" -> <<"f", "i", "n", "d", "i", "n", "g">>
      [] c = "nodeId" -> <<"n", "o", "d", "e", "I", "d">>
      [] c = "NODEID" -> <<"N", "O", "D", "E", "I", "D">>
      [] c = "nodeid" -> <<"n", "o", "d", "e", "i", "d">>
      [] c = "assessmentId" -> <<"a", "s", "s", "e", "s", "s", "m", "e", "n", "t", "I", "d">>
      [] c = "ASSESSMENTID" -> <<"A", "S", "S", "E", "S", "S", "M", "E", "N", "T", "I", "D">>
      [] c = "algorithm" -> <<"a", "l", "g", "o", "r", "i", "t", "h", "m">>
      [] c = "ALGORITHM" -> <<"A", "L", "G", "O", "R", "I", "T", "H", "M">>
      [] c = "minute" -> <<"m", "i", "n", "u", "t", "e">>
      [] c = "minutes" -> <<"m", "i", "n", "u", "t", "e", "s">>
      [] c = "MINUTE" -> <<"M", "I", "N", "U", "T", "E">>
      [] c = "MINUTES" -> <<"M", "I", "N", "U", "T", "E", "S">>
      [] c = "DIFFERENTIAL" -> <<"D", "I", "F", "F", "E", "R", "E", "N", "T", "I", "A", "L">>
      [] c = "COMORBID" -> <<"C", "O", "M", "O", "R", "B", "I", "D">>
      [] c = "SUBTYPE" -> <<"S", "U", "B", "T", "Y", "P", "E">>
      [] c = "EXCLUDES" -> <<"E", "X", "C", "L", "U", "D", "E", "S">>
      [] c = "RELATED" -> <<"R", "E", "L", "A", "T", "E", "D">>
      [] c = "BOGUS" -> <<"B", "O", "G", "U", "S">>
      [] c = "==" -> <<"=", "=">>
      [] c = "!=" -> <<"!", "=">>
      [] c = "<=" -> <<"<", "=">>
      [] c = ">=" -> <<">", "=">>
      [] c = "=>" -> <<"=", ">">>
      [] c = "=<" -> <<"=", "<">>
      [] c = "&&" -> <<"&", "&">>
      [] c = "||" -> <<"|", "|">>
      [] OTHER -> <<c>>

\* the text of a string, character by character; len(value) is Len(Chars(value))
RECURSIVE Chars(_)
Chars(s) == IF s = <<>> THEN <<>> ELSE Spell(Head(s)) \o Chars(Tail(s))

UpperLetters ==
    {"A", "B", "C", "D", "E", "F", "G", "H", "I", "J", "K", "L", "M",
     "N", "O", "P", "Q", "R", "S", "T", "U", "V", "W", "X", "Y", "Z"}

\* src/api/excel_io.py: MODULES_COLUMNS and its column order
MODULES_COLUMNS ==
    <<[name |-> "moduleCode", display_name |-> "Module Code", data_type |-> "string",
        required |-> TRUE, max_length |-> 64, unique |-> TRUE,
        pattern |-> "module_code", pattern_message |-> "Module code should be UPPERCASE with hyphens"],
       [name |-> "isUserAssignable", display_name |-> "User Assignable", data_type |-> "boolean",
        required |-> TRUE, max_length |-> 0, unique |-> FALSE,
        pattern |-> "", pattern_message |-> ""],
       [name |-> "name", display_name |-> "Name", data_type |-> "string",
        required |-> TRUE, max_length |-> 255, unique |-> FALSE,
        pattern |-> "", pattern_message |-> ""],
       [name |-> "clientFriendlyName", display_name |-> "Client Friendly Name", data_type |-> "string",
        required |-> FALSE, max_length |-> 0, unique |-> FALSE,
        pattern |-> "", pattern_message |-> ""],
       [name |-> "description", display_name |-> "Description", data_type |-> "string",
        required |-> FALSE, max_length |-> 0, unique |-> FALSE,
        pattern |-> "", pattern_message |-> ""] >>

\* src/api/excel_io.py: ASSESSMENTS_COLUMNS and its column order
ASSESSMENTS_COLUMNS ==
    <<[name |-> "level", display_name |-> "Level", data_type |-> "integer",
        required |-> TRUE, max_length |-> 0, unique |-> FALSE,
        pattern |-> "", pattern_message |-> ""],
       [name |-> "assessmentCode", display_name |-> "Assessment Code", data_type |-> "string",
        required |-> TRUE, max_length |-> 64, unique |-> TRUE,
        pattern |-> "assessment_code", pattern_message |-> "Assessment code should be UPPERCASE with underscores"],
       [name |-> "moduleCode", display_name |-> "Module Code", data_type |-> "string",
        required |-> FALSE, max_length |-> 64, unique |-> FALSE,
        pattern |-> "", pattern_message |-> ""],
       [name |-> "isUserAssignable", display_name |-> "User Assignable", data_type |-> "boolean",
        required |-> TRUE, max_length |-> 0, unique |-> FALSE,
        pattern |-> "", pattern_message |-> ""],
       [name |-> "name", display_name |-> "Name", data_type |-> "string",
        required |-> TRUE, max_length |-> 255, unique |-> FALSE,
        pattern |-> "", pattern_message |-> ""],
       [name |-> "clientFriendlyName", display_name |-> "Client Friendly Name", data_type |-> "string",
        required |-> FALSE, max_length |-> 0, unique |-> FALSE,
        pattern |-> "", pattern_message |-> ""],
       [name |-> "description", display_name |-> "Description", data_type |-> "string",
        required |-> FALSE, max_length |-> 0, unique |-> FALSE,
        pattern |-> "", pattern_message |-> ""],
       [name |-> "estimatedDuration", display_name |-> "Estimated Duration", data_type |-> "string",
        required |-> FALSE, max_length |-> 64, unique |-> FALSE,
        pattern |-> "", pattern_message |-> ""] >>

\* src/api/excel_io.py: LEVEL_FACTS_COLUMNS and its column order
LEVEL_FACTS_COLUMNS ==
    <<[name |-> "assessmentId", display_name |-> "Assessment ID", data_type |-> "string",
        required |-> TRUE, max_length |-> 0, unique |-> FALSE,
        pattern |-> "", pattern_message |-> ""],
       [name |-> "nodeId", display_name |-> "Node ID", data_type |-> "string",
        required |-> TRUE, max_length |-> 0, unique |-> FALSE,
        pattern |-> "", pattern_message |-> ""],
       [name |-> "factId", display_name |-> "Fact ID", data_type |-> "string",
        required |-> FALSE, max_length |-> 0, unique |-> FALSE,
        pattern |-> "", pattern_message |-> ""],
       [name |-> "factGroup", display_name |-> "Fact Group", data_type |-> "string",
        required |-> FALSE, max_length |-> 0, unique |-> FALSE,
        pattern |-> "", pattern_message |-> ""],
       [name |-> "nodeText", display_name |-> "Node Text", data_type |-> "string",
        required |-> TRUE, max_length |-> 0, unique |-> FALSE,
        pattern |-> "", pattern_message |-> ""],
       [name |-> "dataType", display_name |-> "Data Type", data_type |-> "enum",
        required |-> TRUE, max_length |-> 0, unique |-> FALSE,
        pattern |-> "", pattern_message |-> ""],
       [name |-> "isDeterministic", display_name |-> "Is Deterministic", data_type |-> "boolean",
        required |-> TRUE, max_length |-> 0, unique |-> FALSE,
        pattern |-> "", pattern_message |-> ""],
       [name |-> "range", display_name |-> "Range", data_type |-> "string",
        required |-> FALSE, max_length |-> 0, unique |-> FALSE,
        pattern |-> "range", pattern_message |-> "Range must be in format 'min-max'"],
       [name |-> "enumerationType", display_name |-> "Enumeration Type", data_type |-> "string",
        required |-> FALSE, max_length |-> 0, unique |-> FALSE,
        pattern |-> "", pattern_message |-> ""],
       [name |-> "target", display_name |-> "Target", data_type |-> "string",
        required |-> FALSE, max_length |-> 0, unique |-> FALSE,
        pattern |-> "", pattern_message |-> ""],
       [name |-> "isRestartPoint", display_name |-> "Is Restart Point", data_type |-> "boolean",
        required |-> TRUE, max_length |-> 0, unique |-> FALSE,
        pattern |-> "", pattern_message |-> ""] >>

\* src/api/excel_io.py: ALGORITHMS_COLUMNS and its column order
ALGORITHMS_COLUMNS ==
    <<[name |-> "algorithmId", display_name |-> "Algorithm ID", data_type |-> "string",
        required |-> TRUE, max_length |-> 0, unique |-> TRUE,
        pattern |-> "algorithm_id", pattern_message |-> "Algorithm ID should be in format ALG_NNN"],
       [name |-> "assessmentCode", display_name |-> "Assessment Code", data_type |-> "string",
        required |-> FALSE, max_length |-> 0, unique |-> FALSE,
        pattern |-> "", pattern_message |-> ""],
       [name |-> "moduleCode", display_name |-> "Module Code", data_type |-> "string",
        required |-> FALSE, max_length |-> 0, unique |-> FALSE,
        pattern |-> "", pattern_message |-> ""],
       [name |-> "event", display_name |-> "Event Type", data_type |-> "enum",
        required |-> TRUE, max_length |-> 0, unique |-> FALSE,
        pattern |-> "", pattern_message |-> ""],
       [name |-> "priority", display_name |-> "Priority", data_type |-> "integer",
        required |-> FALSE, max_length |-> 0, unique |-> FALSE,
        pattern |-> "", pattern_message |-> ""],
       [name |-> "algorithm", display_name |-> "Algorithm Expression", data_type |-> "string",
        required |-> TRUE, max_length |-> 0, unique |-> FALSE,
        pattern |-> "", pattern_message |-> ""],
       [name |-> "findingCode", display_name |-> "Finding Code", data_type |-> "string",
        required |-> FALSE, max_length |-> 0, unique |-> FALSE,
        pattern |-> "", pattern_message |-> ""],
       [name |-> "changeControl", display_name |-> "Change Control", data_type |-> "string",
        required |-> FALSE, max_length |-> 0, unique |-> FALSE,
        pattern |-> "", pattern_message |-> ""] >>

\* src/api/excel_io.py: ENUMERATIONS_COLUMNS and its column order
ENUMERATIONS_COLUMNS ==
    <<[name |-> "enumerationType", display_name |-> "Enumeration Type", data_type |-> "string",
        required |-> TRUE, max_length |-> 64, unique |-> FALSE,
        pattern |-> "", pattern_message |-> ""],
       [name |-> "languageCode", display_name |-> "Language Code", data_type |-> "string",
        required |-> FALSE, max_length |-> 10, unique |-> FALSE,
        pattern |-> "", pattern_message |-> ""],
       [name |-> "seq", display_name |-> "Sequence", data_type |-> "integer",
        required |-> TRUE, max_length |-> 0, unique |-> FALSE,
        pattern |-> "", pattern_message |-> ""],
       [name |-> "value", display_name |-> "Value", data_type |-> "string",
        required |-> TRUE, max_length |-> 255, unique |-> FALSE,
        pattern |-> "", pattern_message |-> ""],
       [name |-> "derivedValue", display_name |-> "Derived Value", data_type |-> "string",
        required |-> TRUE, max_length |-> 255, unique |-> FALSE,
        pattern |-> "", pattern_message |-> ""],
       [name |-> "tags", display_name |-> "Tags", data_type |-> "string",
        required |-> FALSE, max_length |-> 0, unique |-> FALSE,
        pattern |-> "", pattern_message |-> ""],
       [name |-> "changeControl", display_name |-> "Change Control", data_type |-> "string",
        required |-> FALSE, max_length |-> 0, unique |-> FALSE,
        pattern |-> "", pattern_message |-> ""] >>

\* src/api/excel_io.py: FINDINGS_COLUMNS and its column order
FINDINGS_COLUMNS ==
    <<[name |-> "findingCode", display_name |-> "Finding Code", data_type |-> "string",
        required |-> TRUE, max_length |-> 64, unique |-> TRUE,
        pattern |-> "finding_code", pattern_message |-> "Finding code should be UPPERCASE with underscores or hyphens"],
       [name |-> "name", display_name |-> "Name", data_type |-> "string",
        required |-> TRUE, max_length |-> 255, unique |-> FALSE,
        pattern |-> "", pattern_message |-> ""],
       [name |-> "clientFriendlyName", display_name |-> "Client Friendly Name", data_type |-> "string",
        required |-> FALSE, max_length |-> 0, unique |-> FALSE,
        pattern |-> "", pattern_message |-> ""],
       [name |-> "icdCode", display_name |-> "ICD Code", data_type |-> "string",
        required |-> FALSE, max_length |-> 16, unique |-> FALSE,
        pattern |-> "icd_code", pattern_message |-> "ICD code should be in format like F32.1 or A01.0"],
       [name |-> "tags", display_name |-> "Tags", data_type |-> "string",
        required |-> FALSE, max_length |-> 0, unique |-> FALSE,
        pattern |-> "", pattern_message |-> ""] >>

\* src/api/excel_io.py: FINDING_RELATIONSHIPS_COLUMNS and its column order
FINDING_RELATIONSHIPS_COLUMNS ==
    <<[name |-> "sourceFindingCode", display_name |-> "Source Finding Code", data_type |-> "string",
        required |-> TRUE, max_length |-> 64, unique |-> FALSE,
        pattern |-> "", pattern_message |-> ""],
       [name |-> "targetFindingCode", display_name |-> "Target Finding Code", data_type |-> "string",
        required |-> TRUE, max_length |-> 64, unique |-> FALSE,
        pattern |-> "", pattern_message |-> ""],
       [name |-> "sequence", display_name |-> "Sequence", data_type |-> "integer",
        required |-> TRUE, max_length |-> 0, unique |-> FALSE,
        pattern |-> "", pattern_message |-> ""],
       [name |-> "relationshipTypeCode", display_name |-> "Relationship Type", data_type |-> "string",
        required |-> TRUE, max_length |-> 32, unique |-> FALSE,
        pattern |-> "", pattern_message |-> ""],
       [name |-> "descriptor", display_name |-> "Descriptor", data_type |-> "string",
        required |-> FALSE, max_length |-> 0, unique |-> FALSE,
        pattern |-> "", pattern_message |-> ""] >>

\* src/api/excel_io.py: get_column_definitions / get_column_order, as the
\* list of the sheet's column definitions in column order
get_column_definitions(sheet_name) ==
    CASE sheet_name = "Modules" -> MODULES_COLUMNS
      [] sheet_name = "Assessments" -> ASSESSMENTS_COLUMNS
      [] sheet_name \in {"Level 0 Facts", "Level 1 Facts", "Level 2 Facts",
                         "Level 3 Facts"} -> LEVEL_FACTS_COLUMNS
      [] sheet_name = "Algorithms" -> ALGORITHMS_COLUMNS
      [] sheet_name = "Enumerations" -> ENUMERATIONS_COLUMNS
      [] sheet_name = "Findings" -> FINDINGS_COLUMNS
      [] sheet_name = "Findings Relationships" -> FINDING_RELATIONSHIPS_COLUMNS

IsCodeChar(c) == c \in UpperLetters \/ c \in DigitLexemes

\* ^[A-Z0-9][A-Z0-9<extra>]*[A-Z0-9]$|^[A-Z0-9]$ and, for the codes whose
\* second alternative is ^[A-Z0-9]+$, the same language
MatchCode(cs, extra) ==
    /\ Len(cs) >= 1
    /\ IsCodeChar(cs[1]) /\ IsCodeChar(cs[Len(cs)])
    /\ \A i \in 1..Len(cs) : IsCodeChar(cs[i]) \/ cs[i] \in extra

AllDigits(cs, from, to) == \A i \in from..to : cs[i] \in DigitLexemes

\* re.match(column_def.pattern, value) for the patterns of the schemas
re_match(pattern, value) ==
    LET Match(cs, n) ==
        CASE pattern = "module_code" -> MatchCode(cs, {"-"})
          [] pattern = "assessment_code" -> MatchCode(cs, {"_"})
          [] pattern = "finding_code" -> MatchCode(cs, {"_", "-"})
          [] pattern = "range" ->
                \E k \in 2..(n - 1) :
                    cs[k] = "-" /\ AllDigits(cs, 1, k - 1) /\ AllDigits(cs, k + 1, n)
          [] pattern = "algorithm_id" ->
                n = 7 /\ SubSeq(cs, 1, 4) = <<"A", "L", "G", "_">> /\ AllDigits(cs, 5, 7)
          [] pattern = "icd_code" ->
                /\ n >= 3 /\ cs[1] \in UpperLetters /\ AllDigits(cs, 2, 3)
                /\ \/ n = 3
                   \/ n \in 5..8 /\ cs[4] = "." /\ AllDigits(cs, 5, n)
        OfChars(cs) == Match(cs, Len(cs))
    IN  OfChars(Chars(value))

\* str(value)
PyStr(v) ==
    IF v = TrueV THEN <<"True">>
    ELSE IF v = FalseV THEN <<"False">>
    ELSE IF IsNone(v) THEN <<"N", "o", "n", "e">>
    ELSE v

\* int(value) does not raise: a bool, or an optionally signed run of digits
\* (single underscores between digits allowed) with white space around it
int_ok(value) ==
    IF IsBool(value) THEN TRUE
    ELSE LET cs == Chars(Strip(value))
             body == IF cs # <<>> /\ Head(cs) \in {"+", "-"} THEN Tail(cs) ELSE cs
         IN  /\ body # <<>>
             /\ \A i \in 1..Len(body) :
                   \/ body[i] \in DigitLexemes
                   \/ /\ body[i] = "_" /\ 1 < i /\ i < Len(body)
                      /\ body[i - 1] \in DigitLexemes /\ body[i + 1] \in DigitLexemes

\* the uniqueness check of validate_field; value is never None here
field_unique_issue(field_name, value, sheet_name, existing_values, is_edit, original_value, column_def) ==
    LET compare_value == IF Truthy(value) THEN Upper(Strip(PyStr(value))) ELSE <<>>
        present == SelectSeq(existing_values, LAMBDA v : ~IsNone(v))
        existing_upper == [i \in 1..Len(present) |-> Upper(Strip(PyStr(present[i])))]
        original_upper == Upper(Strip(PyStr(original_value)))
        others == IF is_edit /\ Truthy(original_value)
                  THEN SelectSeq(existing_upper, LAMBDA v : v # original_upper)
                  ELSE existing_upper
    IN  IF \E i \in 1..Len(others) : others[i] = compare_value
        THEN <<ValidationIssue(sheet_name, NoRow, field_name, "error",
                               "already exists", <<column_def.display_name, value>>)>>
        ELSE <<>>

\* the type-specific validation of validate_field, for a value that is not
\* empty
field_type_issues(field_name, value, sheet_name, column_def) ==
    LET Issue(severity, template, v) ==
            ValidationIssue(sheet_name, NoRow, field_name, severity, template, v)
        Typed(text) ==
            CASE column_def.data_type = "string" ->
                    (IF /\ column_def.max_length # 0
                        /\ Len(Chars(text)) > column_def.max_length
                     THEN <<Issue("error", "must be characters or less",
                                  <<column_def.display_name>>)>>
                     ELSE <<>>)
                    \o
                    (IF column_def.pattern # "" /\ ~re_match(column_def.pattern, text)
                     THEN <<Issue("warning", "format",
                                  IF column_def.pattern_message # ""
                                  THEN <<column_def.pattern_message>>
                                  ELSE <<column_def.display_name,
                                         "format is not recommended">>)>>
                     ELSE <<>>)
              [] column_def.data_type = "boolean" ->
                    IF /\ IsStr(value)
                       /\ Upper(value) \notin {<<"TRUE">>, <<"FALSE">>, <<"YES">>,
                                               <<"N", "O">>, <<"1">>, <<"0">>}
                    THEN <<Issue("error", "must be a boolean value",
                                 <<column_def.display_name>>)>>
                    ELSE <<>>
              [] column_def.data_type = "integer" ->
                    IF ~int_ok(value)
                    THEN <<Issue("error", "must be an integer",
                                 <<column_def.display_name>>)>>
                    ELSE <<>>
              [] OTHER -> <<>>
    IN  Typed(IF column_def.data_type = "string" THEN PyStr(value) ELSE value)

\* the error of a required field that is empty
field_required_issue(field_name, sheet_name, column_def) ==
    ValidationIssue(sheet_name, NoRow, field_name, "error", "is required",
                    <<column_def.display_name>>)

\* the value of a field is empty: None, or a blank string
field_empty(value) == IsNone(value) \/ (IsStr(value) /\ Strip(value) = <<>>)

\* the type-specific and the uniqueness checks of a cleaned value
field_checks(field_name, value, sheet_name, existing_values, is_edit, original_value, column_def) ==
    field_type_issues(field_name, value, sheet_name, column_def)
    \o (IF column_def.unique /\ existing_values # <<>>
        THEN field_unique_issue(field_name,
                 IF column_def.data_type = "string" THEN PyStr(value) ELSE value,
                 sheet_name, existing_values, is_edit, original_value, column_def)
        ELSE <<>>)

\* a validate_field that goes on to the other checks after the required
\* error; C11_RequirednessShortCircuits tells it from validate_field
validate_field_unstopped(field_name, value0, sheet_name, existing_values, is_edit, original_value, column_def) ==
    LET Checked(value) ==
            (IF column_def.required /\ field_empty(value)
             THEN <<field_required_issue(field_name, sheet_name, column_def)>>
             ELSE <<>>)
            \o field_checks(field_name, IF IsNone(value) THEN <<>> ELSE value,
                            sheet_name, existing_values, is_edit, original_value,
                            column_def)
    IN  Checked(IF IsStr(value0) THEN clean_json_str(value0) ELSE value0)

\* validate_field: the issues of one field; existing_values is the list of
\* the column (None and the empty list are both <<>>: "and existing_values")
validate_field(field_name, value0, sheet_name, existing_values, is_edit, original_value, column_def) ==
    LET Checked(value) ==
            IF column_def.required /\ field_empty(value)
            THEN <<field_required_issue(field_name, sheet_name, column_def)>>
            ELSE IF field_empty(value) THEN <<>>
            ELSE field_checks(field_name, value, sheet_name, existing_values,
                              is_edit, original_value, column_def)
    IN  Checked(IF IsStr(value0) THEN clean_json_str(value0) ELSE value0)

\* dict.get(key): the cell, or None
Get(row_dict, key) == IF key \in DOMAIN row_dict THEN row_dict[key] ELSE NoneV

\* validate_row: existing_df is the list of the stored rows (None is <<>>),
\* edit_index the 0-based index of the edited row (None is NoRow); every
\* issue gets row_number
validate_row(row_data, sheet_name, existing_df, is_edit, edit_index, row_number) ==
    LET column_defs == get_column_definitions(sheet_name)
    IN  Concat([c \in 1..Len(column_defs) |->
            LET col_def == column_defs[c]
                existing_values ==
                    IF col_def.unique
                    THEN [i \in 1..Len(existing_df) |-> Get(existing_df[i], col_def.name)]
                    ELSE <<>>
                original_value ==
                    IF /\ is_edit /\ edit_index # NoRow
                       /\ edit_index < Len(existing_values)
                    THEN existing_values[edit_index + 1]
                    ELSE NoneV
                Numbered(field_issues) ==
                    [k \in 1..Len(field_issues) |->
                        [field_issues[k] EXCEPT !.row = row_number]]
            IN  Numbered(validate_field(col_def.name, Get(row_data, col_def.name),
                                        sheet_name, existing_values, is_edit,
                                        original_value, col_def))])

(***************************************************************************)
(* Level 2: single sheet validation (src/validation/sheet_validator.py)    *)
(***************************************************************************)
\* src/validation/base.py
VALID_DATA_TYPES ==
    {<<"CONVERSATION">>, <<"ENUMERATION">>, <<"STATEMENT">>, <<"INTEGER">>}

VALID_DETERMINISTIC_VALUES == {<<"TRUE">>, <<"FALSE">>, <<"DELEGATE">>}

get_primary_key_columns(sheet_name) ==
    CASE sheet_name = "Modules" -> <<"moduleCode">>
      [] sheet_name = "Assessments" -> <<"assessmentCode">>
      [] sheet_name = "Findings" -> <<"findingCode">>
      [] sheet_name = "Algorithms" -> <<"algorithmId">>
      [] OTHER -> <<>>

is_level_facts_sheet(sheet_name) ==
    sheet_name \in {"Level 0 Facts", "Level 1 Facts", "Level 2 Facts", "Level 3 Facts"}

\* the duplicate primary key check of one row; seen_values is the set of
\* <<pk, upper-cased value>> seen on the rows before
duplicate_pk_issues(sheet_name, row_dict, excel_row, seen_values) ==
    LET primary_keys == get_primary_key_columns(sheet_name)
    IN  Concat([k \in 1..Len(primary_keys) |->
            LET pk == primary_keys[k]
                pk_value == get_str_value(row_dict, pk)
            IN  IF /\ pk_value # NULL_VALUE /\ ~is_comment(pk_value)
                   /\ <<pk, Upper(pk_value)>> \in seen_values
                THEN <<ValidationIssue(sheet_name, excel_row, pk, "error",
                                       "Duplicate found", <<pk, pk_value>>)>>
                ELSE <<>>])

seen_pk_values(sheet_name, row_dict) ==
    LET primary_keys == get_primary_key_columns(sheet_name)
    IN  {<<primary_keys[k], Upper(get_str_value(row_dict, primary_keys[k]))>> :
            k \in {k \in 1..Len(primary_keys) :
                      LET pk_value == get_str_value(row_dict, primary_keys[k])
                      IN  pk_value # NULL_VALUE /\ ~is_comment(pk_value)}}

\* the range rules of _validate_level_facts_row
level_facts_range_issues(sheet_name, excel_row, data_type, range_val, where) ==
    LET Issue(field, template, v) ==
            ValidationIssue(sheet_name, excel_row, field, "error", template, v)
    IN
    IF data_type = <<"INTEGER">>
    THEN IF range_val = NULL_VALUE
         THEN <<Issue("range", "range is mandatory for INTEGER", where)>>
         ELSE IF ~re_match("range", range_val)
         THEN <<Issue("range", "invalid range format", where \o <<range_val>>)>>
         ELSE <<>>
    ELSE IF range_val # NULL_VALUE
         THEN <<Issue("range", "range not allowed for", where \o <<data_type>>)>>
         ELSE <<>>

\* the optional enumerations_df argument of validate_sheet: None, or the rows
\* of the Enumerations sheet
NoDf == [present |-> FALSE, rows |-> <<>>]
Df(rows) == [present |-> TRUE, rows |-> rows]

\* the enumerationType rules of _validate_level_facts_row
level_facts_enumeration_issues(sheet_name, excel_row, data_type, enumeration_type, where, enumerations_df) ==
    LET Issue(field, template, v) ==
            ValidationIssue(sheet_name, excel_row, field, "error", template, v)
    IN
    IF data_type # <<"ENUMERATION">> THEN <<>>
    ELSE IF enumeration_type = NULL_VALUE
    THEN <<Issue("enumerationType", "missing enumerationType", where)>>
    ELSE IF /\ enumerations_df.present
            /\ \A i \in 1..Len(enumerations_df.rows) :
                  Get(enumerations_df.rows[i], "enumerationType") # enumeration_type
    THEN <<Issue("enumerationType", "invalid enumerationType",
                 where \o <<enumeration_type>>)>>
    ELSE <<>>

\* _validate_level_facts_row: the issues of the row; node_ids and fact_ids
\* are the sets of <<assessment, id>> recorded on the rows before
validate_level_facts_row(row_dict, excel_row, sheet_name, node_ids, fact_ids, enumerations_df) ==
    LET assessment_id == Upper(get_str_value(row_dict, "assessmentId"))
        node_id == Upper(get_str_value(row_dict, "nodeId"))
        fact_id == Upper(get_str_value(row_dict, "factId"))
        fact_group == Upper(get_str_value(row_dict, "factGroup"))
        data_type == Upper(get_str_value(row_dict, "dataType"))
        is_deterministic == Upper(get_str_value(row_dict, "isDeterministic"))
        enumeration_type == get_str_value(row_dict, "enumerationType")
        range_val == Upper(get_str_value(row_dict, "range"))
        where == <<assessment_id, node_id>>
        Issue(field, template, v) ==
            ValidationIssue(sheet_name, excel_row, field, "error", template, v)
    IN  IF is_row_to_skip(assessment_id, <<"assessmentId">>) THEN <<>>
        ELSE
          (IF /\ node_id # NULL_VALUE /\ ~is_comment(node_id)
              /\ <<assessment_id, node_id>> \in node_ids
           THEN <<Issue("nodeId", "duplicate nodeId found", where)>> ELSE <<>>)
          \o
          (IF fact_id # NULL_VALUE /\ <<assessment_id, fact_id>> \in fact_ids
           THEN <<Issue("factId", "duplicate factId found", where \o <<fact_id>>)>>
           ELSE <<>>)
          \o
          (IF data_type = NULL_VALUE
           THEN <<Issue("dataType", "missing dataType", where)>>
           ELSE IF data_type \notin VALID_DATA_TYPES
           THEN <<Issue("dataType", "invalid dataType", where \o <<data_type>>)>>
           ELSE <<>>)
          \o
          (IF is_deterministic = NULL_VALUE
           THEN <<Issue("isDeterministic", "missing isDeterministic", where)>>
           ELSE IF is_deterministic \notin VALID_DETERMINISTIC_VALUES
           THEN <<Issue("isDeterministic", "invalid isDeterministic",
                        where \o <<is_deterministic>>)>>
           ELSE <<>>)
          \o
          (IF is_deterministic = <<"DELEGATE">> /\ data_type # <<"ENUMERATION">>
           THEN <<Issue("isDeterministic", "isDeterministic not allowed for dataType",
                        where \o <<data_type>>)>>
           ELSE <<>>)
          \o
          (IF data_type = <<"STATEMENT">> /\ fact_id # NULL_VALUE
           THEN <<Issue("factId", "STATEMENT cannot have a factId", where)>>
           ELSE <<>>)
          \o
          (IF /\ fact_group # NULL_VALUE
              /\ data_type \in {<<"INTEGER">>, <<"STATEMENT">>, <<"CONVERSATION">>}
           THEN <<Issue("factGroup", "cannot have a factGroup", where \o <<data_type>>)>>
           ELSE <<>>)
          \o level_facts_range_issues(sheet_name, excel_row, data_type, range_val, where)
          \o level_facts_enumeration_issues(sheet_name, excel_row, data_type,
                                            enumeration_type, where, enumerations_df)

\* _validate_enumeration_row
validate_enumeration_row(row_dict, excel_row, sheet_name) ==
    LET enum_type == get_str_value(row_dict, "enumerationType")
        value == get_str_value(row_dict, "value")
        tags == Upper(get_str_value(row_dict, "tags"))
    IN  IF enum_type = NULL_VALUE \/ is_comment(enum_type) THEN <<>>
        ELSE
          (IF value = NULL_VALUE
           THEN <<ValidationIssue(sheet_name, excel_row, "value", "error",
                                  "missing value", <<enum_type>>)>>
           ELSE <<>>)
          \o
          (IF tags # NULL_VALUE /\ ~ContainsSub(tags, <<"DELEGATE=">>)
           THEN <<ValidationIssue(sheet_name, excel_row, "tags", "error",
                                  "invalid tags", <<enum_type, tags>>)>>
           ELSE <<>>)

\* _validate_findings_row
validate_findings_row(row_dict, excel_row, sheet_name) ==
    LET finding_code == get_str_value(row_dict, "findingCode")
        icd_code == get_str_value(row_dict, "icdCode")
        tags == get_str_value(row_dict, "tags")
        tag_list == SplitBy(tags, ",")
    IN  IF finding_code = NULL_VALUE \/ is_comment(finding_code) THEN <<>>
        ELSE
          (IF icd_code # NULL_VALUE /\ ~re_match("icd_code", Upper(icd_code))
           THEN <<ValidationIssue(sheet_name, excel_row, "icdCode", "warning",
                                  "ICD code may not be in standard format",
                                  <<finding_code, icd_code>>)>>
           ELSE <<>>)
          \o
          (IF /\ tags # NULL_VALUE
              /\ \E k \in 1..Len(tag_list) : Strip(tag_list[k]) = <<>>
           THEN <<ValidationIssue(sheet_name, excel_row, "tags", "warning",
                                  "tags contain empty values", <<finding_code>>)>>
           ELSE <<>>)

\* src/validation/sheet_validator.py: VALID_RELATIONSHIP_TYPES
VALID_RELATIONSHIP_TYPES ==
    {<<"DIFFERENTIAL">>, <<"COMORBID">>, <<"SUBTYPE">>, <<"EXCLUDES">>, <<"RELATED">>}

\* the key _validate_finding_relationships_row adds to seen_relationships,
\* as a set of at most one element
relationship_key(row_dict) ==
    LET source_finding == get_str_value(row_dict, "sourceFindingCode")
        target_finding == get_str_value(row_dict, "targetFindingCode")
        relationship_type == get_str_value(row_dict, "relationshipTypeCode")
    IN  IF /\ source_finding # NULL_VALUE /\ ~is_comment(source_finding)
           /\ target_finding # NULL_VALUE /\ relationship_type # NULL_VALUE
        THEN {<<Upper(source_finding), Upper(target_finding), Upper(relationship_type)>>}
        ELSE {}

\* _validate_finding_relationships_row
validate_finding_relationships_row(row_dict, excel_row, sheet_name, seen_relationships) ==
    LET source_finding == get_str_value(row_dict, "sourceFindingCode")
        target_finding == get_str_value(row_dict, "targetFindingCode")
        relationship_type == get_str_value(row_dict, "relationshipTypeCode")
    IN  IF source_finding = NULL_VALUE \/ is_comment(source_finding) THEN <<>>
        ELSE
          (IF /\ relationship_type # NULL_VALUE
              /\ Upper(relationship_type) \notin VALID_RELATIONSHIP_TYPES
           THEN <<ValidationIssue(sheet_name, excel_row, "relationshipTypeCode",
                                  "warning", "is not a recognized type",
                                  <<relationship_type>>)>>
           ELSE <<>>)
          \o
          (IF /\ target_finding # NULL_VALUE
              /\ Upper(source_finding) = Upper(target_finding)
           THEN <<ValidationIssue(sheet_name, excel_row, "targetFindingCode",
                                  "warning", "Self-referencing relationship",
                                  <<source_finding>>)>>
           ELSE <<>>)
          \o
          (IF relationship_key(row_dict) \subseteq seen_relationships
                 /\ relationship_key(row_dict) # {}
           THEN <<ValidationIssue(sheet_name, excel_row, "sourceFindingCode", "error",
                                  "Duplicate relationship",
                                  <<source_finding, target_finding, relationship_type>>)>>
           ELSE <<>>)

\* _validate_level_facts_targets, for the row at 0-based index idx
validate_level_facts_target(row_dict, excel_row, sheet_name, node_ids) ==
    LET assessment_id == Upper(get_str_value(row_dict, "assessmentId"))
        node_id == Upper(get_str_value(row_dict, "nodeId"))
        target == Upper(get_str_value(row_dict, "target"))
        data_type == Upper(get_str_value(row_dict, "dataType"))
        targets == target_list(target)
    IN  IF is_row_to_skip(assessment_id, <<"assessmentId">>) \/ target = NULL_VALUE
        THEN <<>>
        ELSE
          (IF data_type # <<"ENUMERATION">> /\ Len(targets) > 1
           THEN <<ValidationIssue(sheet_name, excel_row, "target", "error",
                                  "only single target allowed for",
                                  <<assessment_id, node_id, data_type>>)>>
           ELSE <<>>)
          \o
          Concat([k \in 1..Len(targets) |->
              IF /\ <<assessment_id, targets[k]>> \notin node_ids
                 /\ targets[k] # <<"EXIT">> /\ targets[k] # NULL_VALUE
              THEN <<ValidationIssue(sheet_name, excel_row, "target", "error",
                                     "target not found",
                                     <<assessment_id, node_id, targets[k]>>)>>
              ELSE <<>>])

\* src/validation/base.py: ValidationResult, add_issue and merge
NewResult == [is_valid |-> TRUE, issues |-> <<>>]

add_issue(res, issue) ==
    [res EXCEPT !.is_valid = res.is_valid /\ issue.severity # "error",
                !.issues = Append(res.issues, issue)]

RECURSIVE add_issues(_, _)
add_issues(res, issues) ==
    IF issues = <<>> THEN res
    ELSE add_issues(add_issue(res, Head(issues)), Tail(issues))

merge(res, other) ==
    [res EXCEPT !.is_valid = res.is_valid /\ other.is_valid,
                !.issues = res.issues \o other.issues]

\* the ValidationResult validate_row returns
validate_row_result(row_data, sheet_name, existing_df, is_edit, edit_index, row_number) ==
    add_issues(NewResult, validate_row(row_data, sheet_name, existing_df, is_edit,
                                       edit_index, row_number))

\* the sheet-specific checks of one row in the first pass of validate_sheet
sheet_specific_issues(sheet_name, row_dict, excel_row, acc, enumerations_df) ==
    IF is_level_facts_sheet(sheet_name)
    THEN validate_level_facts_row(row_dict, excel_row, sheet_name, acc.node_ids,
                                  acc.fact_ids, enumerations_df)
    ELSE IF sheet_name = "Enumerations"
    THEN validate_enumeration_row(row_dict, excel_row, sheet_name)
    ELSE IF sheet_name = "Findings"
    THEN validate_findings_row(row_dict, excel_row, sheet_name)
    ELSE IF sheet_name = "Findings Relationships"
    THEN validate_finding_relationships_row(row_dict, excel_row, sheet_name,
                                            acc.seen_relationships)
    ELSE <<>>

\* the ids _validate_level_facts_row records for the row
recorded_ids(sheet_name, row_dict, key, skip_comments) ==
    LET assessment_id == Upper(get_str_value(row_dict, "assessmentId"))
        id == Upper(get_str_value(row_dict, key))
    IN  IF /\ is_level_facts_sheet(sheet_name)
           /\ ~is_row_to_skip(assessment_id, <<"assessmentId">>)
           /\ id # NULL_VALUE
           /\ ~(skip_comments /\ is_comment(id))
        THEN {<<assessment_id, id>>}
        ELSE {}

\* the first pass of validate_sheet from the row at 0-based index idx on
RECURSIVE validate_sheet_rows(_, _, _, _, _)
validate_sheet_rows(sheet_name, df, enumerations_df, idx, acc) ==
    IF idx >= Len(df) THEN acc
    ELSE
      LET row_dict == df[idx + 1]
          excel_row == idx + 2
          row_result == validate_row_result(row_dict, sheet_name, <<>>, FALSE,
                                            NoRow, excel_row)
          level2 == duplicate_pk_issues(sheet_name, row_dict, excel_row,
                                        acc.seen_values)
                    \o sheet_specific_issues(sheet_name, row_dict, excel_row, acc,
                                             enumerations_df)
      IN  validate_sheet_rows(sheet_name, df, enumerations_df, idx + 1,
              [result |-> add_issues(merge(acc.result, row_result), level2),
               seen_values |-> acc.seen_values \cup seen_pk_values(sheet_name, row_dict),
               node_ids |-> acc.node_ids
                            \cup recorded_ids(sheet_name, row_dict, "nodeId", TRUE),
               fact_ids |-> acc.fact_ids
                            \cup recorded_ids(sheet_name, row_dict, "factId", FALSE),
               seen_relationships |->
                   IF sheet_name = "Findings Relationships"
                   THEN acc.seen_relationships \cup relationship_key(row_dict)
                   ELSE acc.seen_relationships])

\* validate_sheet(sheet_name, df, enumerations_df)
validate_sheet(sheet_name, df, enumerations_df) ==
    IF df = <<>> THEN NewResult
    ELSE
      LET SecondPass(first) ==
              IF is_level_facts_sheet(sheet_name)
              THEN add_issues(first.result,
                       Concat([i \in 1..Len(df) |->
                           validate_level_facts_target(df[i], i + 1, sheet_name,
                                                       first.node_ids)]))
              ELSE first.result
      IN  SecondPass(validate_sheet_rows(sheet_name, df, enumerations_df, 0,
                         [result |-> NewResult, seen_values |-> {}, node_ids |-> {},
                          fact_ids |-> {}, seen_relationships |-> {}]))

(***************************************************************************)
(* The ModelValidator of src/api/model_validator.py.  Its helpers and      *)
(* classes have the names of those of src/validation; here they carry the  *)
(* prefix api_.  Its ValidationIssue has the fields of ValidationIssue and  *)
(* a context dictionary that no check reads.                               *)
(***************************************************************************)
\* is_empty(value) for the strings get_str_value returns
api_is_empty(value) == Strip(value) = <<>> \/ Upper(value) = NULL_VALUE

\* is_comment(text): no strip, the prefixes of COMMENT_PREFIXES
api_is_comment(text) ==
    /\ text # <<>>
    /\ \E k \in 1..Len(COMMENT_PREFIXES) : StartsWith(Upper(text), COMMENT_PREFIXES[k])

\* get_str_value(row, field): "" for None, else str(value).strip()
api_get_str_value(row, field) ==
    LET value == Get(row, field)
    IN  IF IsNone(value) THEN <<>> ELSE Strip(PyStr(value))

\* field=None of a sheet-level issue
NoField == "<None>"

\* ValidationCategory after add_issue of each of the issues
api_ValidationCategory(name, issues) ==
    [name |-> name,
     passed |-> CountSeverity(issues, "error") = 0,
     error_count |-> CountSeverity(issues, "error"),
     warning_count |-> Len(issues) - CountSeverity(issues, "error"),
     issues |-> issues]

\* ValidationResults()
api_ValidationResults ==
    [overall_passed |-> TRUE, total_errors |-> 0, total_warnings |-> 0,
     categories |-> <<>>]

\* ValidationResults.add_category: categories is a dict keyed by name
api_add_category(results, category) ==
    [overall_passed |-> results.overall_passed /\ category.passed,
     total_errors |-> results.total_errors + category.error_count,
     total_warnings |-> results.total_warnings + category.warning_count,
     categories |->
         IF \E i \in 1..Len(results.categories) :
                results.categories[i].name = category.name
         THEN [i \in 1..Len(results.categories) |->
                  IF results.categories[i].name = category.name
                  THEN category ELSE results.categories[i]]
         ELSE Append(results.categories, category)]

\* {str(c).strip() for c in df[column].dropna() if str(c).strip()}
api_codes(session_data, sheet_name, column) ==
    LET df == Sheet(session_data, sheet_name)
    IN  {Strip(PyStr(Get(df[i], column))) :
            i \in {i \in 1..Len(df) :
                      /\ ~IsNone(Get(df[i], column))
                      /\ Strip(PyStr(Get(df[i], column))) # <<>>}}

api_level_sheets ==
    <<"Level 0 Facts", "Level 1 Facts", "Level 2 Facts", "Level 3 Facts">>

\* all rows of the Level Facts sheets in the order _build_lookups reads them
api_level_rows(session_data) ==
    Concat([level \in 1..4 |->
        LET df == Sheet(session_data, api_level_sheets[level])
        IN  [i \in 1..Len(df) |->
                [level |-> level - 1, sheet |-> api_level_sheets[level],
                 row |-> i - 1, row_dict |-> df[i]]]])

\* self.fact_data: a dict, so a later row of the same factId replaces the
\* data of the entry and keeps its place
RECURSIVE api_fact_data(_, _)
api_fact_data(rows, acc) ==
    IF rows = <<>> THEN acc
    ELSE LET r == Head(rows)
             fact_id == api_get_str_value(r.row_dict, "factId")
             entry == [key |-> fact_id, level |-> r.level, sheet |-> r.sheet,
                       row |-> r.row,
                       factGroup |-> api_get_str_value(r.row_dict, "factGroup"),
                       dataType |-> api_get_str_value(r.row_dict, "dataType"),
                       enumerationType |->
                           api_get_str_value(r.row_dict, "enumerationType")]
         IN  api_fact_data(Tail(rows),
                 IF fact_id = <<>> THEN acc
                 ELSE IF HasKey(acc, fact_id)
                 THEN [i \in 1..Len(acc) |-> IF acc[i].key = fact_id THEN entry
                                             ELSE acc[i]]
                 ELSE Append(acc, entry))

\* self.enumeration_values: type -> list of value dicts, in row order
RECURSIVE api_enumeration_values(_, _, _)
api_enumeration_values(df, idx, acc) ==
    IF idx >= Len(df) THEN acc
    ELSE LET row_dict == df[idx + 1]
             enum_type == api_get_str_value(row_dict, "enumerationType")
             cell == Get(row_dict, "derivedBooleanValue")
             item == [value |-> api_get_str_value(row_dict, "value"),
                      derivedBooleanValue |->
                          IF IsStr(cell)
                          THEN (IF Upper(cell) = <<"TRUE">> THEN TrueV ELSE FalseV)
                          ELSE cell,
                      tags |-> api_get_str_value(row_dict, "tags"),
                      row |-> idx]
         IN  api_enumeration_values(df, idx + 1,
                 IF enum_type = <<>> THEN acc
                 ELSE IF HasKey(acc, enum_type)
                 THEN [i \in 1..Len(acc) |->
                          IF acc[i].key = enum_type
                          THEN [acc[i] EXCEPT !.values = Append(@, item)]
                          ELSE acc[i]]
                 ELSE Append(acc, [key |-> enum_type, values |-> <<item>>]))

\* ModelValidator.__init__ / _build_lookups
api_build_lookups(session_data) ==
    LET rows == api_level_rows(session_data)
        ids(field) == {api_get_str_value(rows[i].row_dict, field) : i \in 1..Len(rows)}
                          \ {<<>>}
        enumeration_values ==
            api_enumeration_values(Sheet(session_data, "Enumerations"), 0, <<>>)
    IN  [module_codes |-> api_codes(session_data, "Modules", "moduleCode"),
         assessment_codes |-> api_codes(session_data, "Assessments", "assessmentCode"),
         fact_ids |-> ids("factId"),
         fact_groups |-> ids("factGroup"),
         fact_data |-> api_fact_data(rows, <<>>),
         nodes_by_assessment |->
             {<<api_get_str_value(rows[i].row_dict, "assessmentId"),
                api_get_str_value(rows[i].row_dict, "nodeId"),
                rows[i].sheet, rows[i].row, rows[i].level>> :
                 i \in {i \in 1..Len(rows) :
                           /\ api_get_str_value(rows[i].row_dict, "assessmentId") # <<>>
                           /\ api_get_str_value(rows[i].row_dict, "nodeId") # <<>>}},
         enumeration_types |->
             {enumeration_values[i].key : i \in 1..Len(enumeration_values)}
                 \cup ids("enumerationType"),
         enumeration_values |-> enumeration_values,
         finding_codes |-> api_codes(session_data, "Findings", "findingCode"),
         results |-> api_ValidationResults]

\* the category of a sheet that is missing or empty, if it gets a warning
api_sheet_warning(name, template) ==
    <<ValidationIssue(name, NoRow, NoField, "warning", template, <<>>)>>

\* the seen-set duplicate idiom of the legacy passes: the set of the values
\* of column on the rows before idx that were added to seen (the first row
\* of each non-empty value)
api_seen(df, idx, column) ==
    {api_get_str_value(df[i], column) :
        i \in {i \in 1..idx : ~api_is_empty(api_get_str_value(df[i], column))}}

\* _validate_modules
api_validate_modules(self, session_data) ==
    IF "Modules" \notin DOMAIN session_data
    THEN api_sheet_warning("Modules", "Modules sheet not found")
    ELSE IF session_data["Modules"] = <<>>
    THEN api_sheet_warning("Modules", "Modules sheet is empty")
    ELSE
      LET df == session_data["Modules"]
      IN  Concat([i \in 1..Len(df) |->
            LET idx == i - 1
                module_code == api_get_str_value(df[i], "moduleCode")
                module_name == api_get_str_value(df[i], "moduleName")
            IN  (IF api_is_empty(module_code)
                 THEN <<ValidationIssue("Modules", idx, "moduleCode", "error",
                                        "Module code is required", <<>>)>>
                 ELSE IF module_code \in api_seen(df, idx, "moduleCode")
                 THEN <<ValidationIssue("Modules", idx, "moduleCode", "error",
                                        "Duplicate module code", module_code)>>
                 ELSE <<>>)
                \o
                (IF api_is_empty(module_name)
                 THEN <<ValidationIssue("Modules", idx, "moduleName", "warning",
                                        "Module name is empty for", module_code)>>
                 ELSE <<>>)])

\* _validate_assessments
api_validate_assessments(self, session_data) ==
    IF "Assessments" \notin DOMAIN session_data
    THEN api_sheet_warning("Assessments", "Assessments sheet not found")
    ELSE IF session_data["Assessments"] = <<>>
    THEN api_sheet_warning("Assessments", "Assessments sheet is empty")
    ELSE
      LET df == session_data["Assessments"]
      IN  Concat([i \in 1..Len(df) |->
            LET idx == i - 1
                assessment_code == api_get_str_value(df[i], "assessmentCode")
                module_code == api_get_str_value(df[i], "moduleCode")
                assessment_name == api_get_str_value(df[i], "assessmentName")
            IN  (IF api_is_empty(assessment_code)
                 THEN <<ValidationIssue("Assessments", idx, "assessmentCode", "error",
                                        "Assessment code is required", <<>>)>>
                 ELSE IF assessment_code \in api_seen(df, idx, "assessmentCode")
                 THEN <<ValidationIssue("Assessments", idx, "assessmentCode", "error",
                                        "Duplicate assessment code", assessment_code)>>
                 ELSE <<>>)
                \o
                (IF ~api_is_empty(module_code) /\ module_code \notin self.module_codes
                 THEN <<ValidationIssue("Assessments", idx, "moduleCode", "error",
                                        "Module code not found in Modules sheet",
                                        module_code)>>
                 ELSE <<>>)
                \o
                (IF api_is_empty(assessment_name)
                 THEN <<ValidationIssue("Assessments", idx, "assessmentName", "warning",
                                        "Assessment name is empty for",
                                        assessment_code)>>
                 ELSE <<>>)])

\* _validate_enumerations from the row at index idx on; values_by_type is
\* the set of <<type, value>> recorded before
RECURSIVE api_validate_enumeration_rows(_, _, _)
api_validate_enumeration_rows(df, idx, values_by_type) ==
    IF idx >= Len(df) THEN <<>>
    ELSE
      LET row_dict == df[idx + 1]
          enum_type == api_get_str_value(row_dict, "enumerationType")
          value == api_get_str_value(row_dict, "value")
          tags == api_get_str_value(row_dict, "tags")
          checked == ~(api_is_comment(enum_type) \/ api_is_comment(value))
                         /\ ~api_is_empty(value)
          issues ==
              IF api_is_comment(enum_type) \/ api_is_comment(value) THEN <<>>
              ELSE IF api_is_empty(value)
              THEN <<ValidationIssue("Enumerations", idx, "value", "error",
                                     "Enumeration value is required", enum_type)>>
              ELSE
                (IF enum_type # <<>> /\ <<enum_type, value>> \in values_by_type
                 THEN <<ValidationIssue("Enumerations", idx, "value", "error",
                                        "Duplicate value in enumerationType",
                                        <<value, enum_type>>)>>
                 ELSE <<>>)
                \o
                (IF ~api_is_empty(tags) /\ ~ContainsSub(Upper(tags), <<"DELEGATE=">>)
                 THEN <<ValidationIssue("Enumerations", idx, "tags", "error",
                                        "Invalid tags", tags)>>
                 ELSE <<>>)
      IN  issues \o api_validate_enumeration_rows(df, idx + 1,
                        IF checked /\ enum_type # <<>>
                        THEN values_by_type \cup {<<enum_type, value>>}
                        ELSE values_by_type)

api_validate_enumerations(self, session_data) ==
    api_validate_enumeration_rows(Sheet(session_data, "Enumerations"), 0, {})

\* the rows of a Level Facts sheet that _validate_level_facts checks beyond
\* AS-01: not a comment row, nodeId not empty
api_checked_row(row_dict) ==
    LET node_id == api_get_str_value(row_dict, "nodeId")
    IN  ~api_is_comment(node_id) /\ ~api_is_empty(node_id)

\* seen_node_ids_per_assessment / seen_fact_ids_per_assessment before the
\* row at index idx, as sets of <<assessmentId, id>>
api_seen_ids(df, idx, field) ==
    {<<api_get_str_value(df[i], "assessmentId"), api_get_str_value(df[i], field)>> :
        i \in {i \in 1..idx :
                  /\ api_checked_row(df[i])
                  /\ api_get_str_value(df[i], "assessmentId") # <<>>
                  /\ ~api_is_empty(api_get_str_value(df[i], field))}}

\* AS-12, AS-13 and the rule for the other data types
api_range_issues(sheet_name, idx, data_type, range_val, node_id) ==
    IF data_type = <<"INTEGER">>
    THEN IF api_is_empty(range_val)
         THEN <<ValidationIssue(sheet_name, idx, "range", "error",
                                "Range is mandatory for dataType=INTEGER", node_id)>>
         ELSE IF ~re_match("range", range_val)
         THEN <<ValidationIssue(sheet_name, idx, "range", "error",
                                "Invalid range", range_val)>>
         ELSE <<>>
    ELSE IF ~api_is_empty(range_val)
         THEN <<ValidationIssue(sheet_name, idx, "range", "error",
                                "Range not allowed for dataType",
                                <<data_type, node_id>>)>>
         ELSE <<>>

\* AS-16 .. AS-19
api_target_issues(self, sheet_name, idx, data_type, enum_type, target, node_id, all_node_ids_in_sheet) ==
    IF api_is_empty(target)
    THEN <<ValidationIssue(sheet_name, idx, "target", "error",
                           "Target is required", node_id)>>
    ELSE
      LET parts == SplitBy(target, "|")
          targets == [k \in 1..Len(parts) |-> Strip(parts[k])]
      IN  Concat([k \in 1..Len(targets) |->
              IF /\ Upper(targets[k]) # <<"EXIT">>
                 /\ targets[k] \notin all_node_ids_in_sheet
              THEN <<ValidationIssue(sheet_name, idx, "target", "error",
                                     "Target not found in sheet",
                                     <<targets[k], node_id>>)>>
              ELSE <<>>])
          \o
          (IF data_type = <<"ENUMERATION">> /\ HasKey(self.enumeration_values, enum_type)
           THEN IF /\ Len(targets) > 1
                   /\ Len(targets) # Len(Lookup(self.enumeration_values, enum_type).values)
                THEN <<ValidationIssue(sheet_name, idx, "target", "error",
                           "Target must be length 1 or same length as enumeration",
                           enum_type)>>
                ELSE <<>>
           ELSE IF data_type # <<"ENUMERATION">> /\ Len(targets) > 1
                THEN <<ValidationIssue(sheet_name, idx, "target", "error",
                                       "Only a single target allowed for", data_type)>>
                ELSE <<>>)

\* the checks of _validate_level_facts on the row of df at index idx
api_validate_level_facts_row(self, sheet_name, df, idx, all_node_ids_in_sheet) ==
    LET row_dict == df[idx + 1]
        node_id == api_get_str_value(row_dict, "nodeId")
        fact_id == api_get_str_value(row_dict, "factId")
        assessment_id == api_get_str_value(row_dict, "assessmentId")
        data_type == Upper(api_get_str_value(row_dict, "dataType"))
        fact_group == api_get_str_value(row_dict, "factGroup")
        is_deterministic == Upper(api_get_str_value(row_dict, "isDeterministic"))
        range_val == api_get_str_value(row_dict, "range")
        enum_type == api_get_str_value(row_dict, "enumerationType")
        target == api_get_str_value(row_dict, "target")
        node_text == api_get_str_value(row_dict, "nodeText")
        Issue(field, severity, template, v) ==
            <<ValidationIssue(sheet_name, idx, field, severity, template, v)>>
    IN  IF api_is_comment(node_id) THEN <<>>
        ELSE IF api_is_empty(node_id)
        THEN Issue("nodeId", "error", "Node ID is required", assessment_id)
        ELSE
          (IF /\ assessment_id # <<>>
              /\ <<assessment_id, node_id>> \in api_seen_ids(df, idx, "nodeId")
           THEN Issue("nodeId", "error", "Duplicate nodeId within assessment",
                      <<node_id, assessment_id>>)
           ELSE <<>>)
          \o
          (IF api_is_empty(node_text)
           THEN Issue("nodeText", "error", "Node text is required",
                      <<assessment_id, node_id>>)
           ELSE <<>>)
          \o
          (IF api_is_empty(data_type)
           THEN Issue("dataType", "error", "Data type is required", node_id)
           ELSE IF data_type \notin VALID_DATA_TYPES
           THEN Issue("dataType", "error", "Invalid dataType", data_type)
           ELSE <<>>)
          \o
          (IF data_type = <<"STATEMENT">>
           THEN IF ~api_is_empty(fact_id)
                THEN Issue("factId", "error", "STATEMENT node cannot have a factId",
                           node_id)
                ELSE <<>>
           ELSE IF api_is_empty(fact_id) /\ data_type \in VALID_DATA_TYPES
                THEN Issue("factId", "warning", "Missing factId for",
                           <<data_type, node_id>>)
                ELSE <<>>)
          \o
          (IF /\ ~api_is_empty(fact_id) /\ assessment_id # <<>>
              /\ <<assessment_id, fact_id>> \in api_seen_ids(df, idx, "factId")
           THEN Issue("factId", "error", "Duplicate factId within assessment",
                      <<fact_id, assessment_id>>)
           ELSE <<>>)
          \o
          (IF ~api_is_empty(fact_group)
           THEN IF data_type # <<"ENUMERATION">> /\ data_type \in VALID_DATA_TYPES
                THEN Issue("factGroup", "error", "node cannot be in a factGroup",
                           <<data_type, node_id>>)
                ELSE <<>>
           ELSE IF data_type = <<"ENUMERATION">> /\ ~api_is_empty(fact_id)
                THEN Issue("factGroup", "warning",
                           "Missing optional factGroup for enumeration factId", fact_id)
                ELSE <<>>)
          \o
          (IF api_is_empty(is_deterministic)
           THEN Issue("isDeterministic", "error", "isDeterministic is required", node_id)
           ELSE IF is_deterministic \notin VALID_DETERMINISTIC_VALUES
           THEN Issue("isDeterministic", "error", "Invalid isDeterministic",
                      is_deterministic)
           ELSE IF is_deterministic = <<"DELEGATE">> /\ data_type # <<"ENUMERATION">>
           THEN Issue("isDeterministic", "error", "isDeterministic not allowed for dataType",
                      data_type)
           ELSE <<>>)
          \o api_range_issues(sheet_name, idx, data_type, range_val, node_id)
          \o
          (IF data_type = <<"ENUMERATION">>
           THEN IF api_is_empty(enum_type)
                THEN Issue("enumerationType", "error",
                           "enumerationType required for ENUMERATION dataType", node_id)
                ELSE IF ~HasKey(self.enumeration_values, enum_type)
                THEN Issue("enumerationType", "error",
                           "enumerationType not found in Enumerations sheet", enum_type)
                ELSE <<>>
           ELSE <<>>)
          \o api_target_issues(self, sheet_name, idx, data_type, enum_type, target,
                               node_id, all_node_ids_in_sheet)
          \o
          (IF /\ ~api_is_empty(assessment_id)
              /\ assessment_id \notin self.assessment_codes
           THEN Issue("assessmentId", "error",
                      "Assessment ID not found in Assessments sheet", assessment_id)
           ELSE <<>>)

\* the issues of the category of one Level Facts sheet
api_validate_level_facts_sheet(self, session_data, sheet_name) ==
    LET df == Sheet(session_data, sheet_name)
        all_node_ids_in_sheet ==
            {api_get_str_value(df[i], "nodeId") :
                i \in {i \in 1..Len(df) :
                          LET node_id == api_get_str_value(df[i], "nodeId")
                          IN  node_id # <<>> /\ ~api_is_comment(node_id)}}
    IN  Concat([i \in 1..Len(df) |->
            api_validate_level_facts_row(self, sheet_name, df, i - 1,
                                         all_node_ids_in_sheet)])

\* _validate_level_facts: one category per Level Facts sheet, in level order
api_validate_level_facts(self, session_data) ==
    [level \in 1..4 |->
        api_ValidationCategory(api_level_sheets[level],
            api_validate_level_facts_sheet(self, session_data, api_level_sheets[level]))]

(***************************************************************************)
(* ModelValidator._validate_algorithm_expression.  The regular expressions *)
(* are matched as re matches them: leftmost, greedy, with backtracking.    *)
(***************************************************************************)
LowerLetters ==
    {"a", "b", "c", "d", "e", "f", "g", "h", "i", "j", "k", "l", "m",
     "n", "o", "p", "q", "r", "s", "t", "u", "v", "w", "x", "y", "z"}

IsLetterChar(c) == c \in UpperLetters \cup LowerLetters
IsAlnumChar(c) == IsLetterChar(c) \/ c \in DigitLexemes
IsOpChar(c) == c \in {"<", ">", "=", "!"}

SetMin(S) == CHOOSE k \in S : \A j \in S : k <= j
SetMax(S) == CHOOSE k \in S : \A j \in S : k >= j

\* the last index of the run of characters of class In(_) that starts at k
RunEnd(cs, k, In(_)) ==
    SetMax({m \in k..Len(cs) : \A j \in k..m : In(cs[j])})

\* str.count(c)
CountChar(cs, c) == Cardinality({i \in 1..Len(cs) : cs[i] = c})

\* name\(['"]([^'"]+)['"]\) at lexeme i of s: the index of the closing
\* parenthesis, or 0 when there is no match at i
call_pattern_end(s, i, head) ==
    IF s[i] = head /\ i + 1 <= Len(s) /\ s[i + 1] = "'"
    THEN LET q == NextQuote(s, i + 2)
         IN  IF q > i + 2 /\ q + 1 <= Len(s) /\ s[q + 1] = ")" THEN q + 1 ELSE 0
    ELSE 0

\* pattern.findall(expression) for fact_pattern, group_pattern and
\* is_complete_pattern (case-sensitive)
RECURSIVE api_findall(_, _, _)
api_findall(s, i, head) ==
    IF i > Len(s) THEN <<>>
    ELSE LET e == call_pattern_end(s, i, head)
         IN  IF e # 0
             THEN <<SubSeq(s, i + 2, e - 2)>> \o api_findall(s, e + 1, head)
             ELSE api_findall(s, i + 1, head)

\* pattern.sub('True', expression) for the same patterns
RECURSIVE api_sub_true(_, _, _)
api_sub_true(s, i, head) ==
    IF i > Len(s) THEN <<>>
    ELSE LET e == call_pattern_end(s, i, head)
         IN  IF e # 0
             THEN <<"True">> \o api_sub_true(s, e + 1, head)
             ELSE <<s[i]>> \o api_sub_true(s, i + 1, head)

\* the first index from i on that is not a space
SkipSpaces(s, i) ==
    SetMin({k \in i..(Len(s) + 1) : k > Len(s) \/ s[k] # " "})

\* groups\(['"][^'"]+['"]\)\.response\([^)]+\)\s*(==|>=|<=|<|>|!=)\s*\d+
\* at lexeme i: the index of the last digit, or 0
group_term_end(s, i) ==
    LET e == call_pattern_end(s, i, "groups(")
    IN  IF e = 0 \/ e + 1 > Len(s) \/ s[e + 1] # ".response(" THEN 0
        ELSE
          LET closes == {k \in (e + 3)..Len(s) : s[k] = ")"}
          IN  IF closes = {} \/ (e + 2 <= Len(s) /\ s[e + 2] = ")") THEN 0
              ELSE
                LET c == SetMin(closes)
                    o == SkipSpaces(s, c + 1)
                IN  IF o > Len(s) \/ s[o] \notin {"==", ">=", "<=", "<", ">", "!="}
                    THEN 0
                    ELSE LET d == SkipSpaces(s, o + 1)
                         IN  IF d > Len(s) \/ s[d] \notin DigitLexemes THEN 0
                             ELSE RunEnd(s, d, LAMBDA x : x \in DigitLexemes)

\* re.sub of the groups(...).response(...) <op> <number> terms by True
RECURSIVE api_sub_group_terms(_, _)
api_sub_group_terms(s, i) ==
    IF i > Len(s) THEN <<>>
    ELSE LET e == group_term_end(s, i)
         IN  IF e # 0
             THEN <<"True">> \o api_sub_group_terms(s, e + 1)
             ELSE <<s[i]>> \o api_sub_group_terms(s, i + 1)

\* compile(test_expr, '<string>', 'eval') raises SyntaxError
api_syntax_error(expression) ==
    LET test_expr == api_sub_true(
                         api_sub_group_terms(api_sub_true(expression, 1, "fact("), 1),
                         1, "is_complete(")
        Fails(toks, tree) == ~tree.ok \/ tree.pos # Len(toks) + 1
        Compile(toks) == Fails(toks, parse_or(toks, 1))
    IN  Compile(Tokens(test_expr, 1, <<>>))

NoTermMatch == [ok |-> FALSE, operator |-> <<>>, value |-> <<>>, next |-> 0]

\* fact_term_pattern, with re.IGNORECASE, at character p of cs:
\*   fact\(['"](<fact_id>)['"](?:\)|[^)]*\))[^a-zA-Z]*([<>=!]+)[^a-zA-Z]*([a-zA-Z0-9]+)
\* After the closing parenthesis the first [^a-zA-Z]* is tried from its longest
\* match down, so the operator group starts at the last operator character
\* from which a value can still be found.
api_term_match(cs, id, p) ==
    LET n == Len(cs)
        a == p + Len(id) + 7
        starts == /\ a - 1 <= n
                  /\ Upper(SubSeq(cs, p, p + 4)) = <<"F", "A", "C", "T", "(">>
                  /\ cs[p + 5] = "'"
                  /\ Upper(SubSeq(cs, p + 6, p + 5 + Len(id))) = Upper(id)
                  /\ cs[a - 1] = "'"
        closes == {k \in a..n : cs[k] = ")"}
    IN  IF ~starts \/ closes = {} THEN NoTermMatch
        ELSE
          LET b == SetMin(closes) + 1
              letters == {k \in b..n : IsLetterChar(cs[k])}
              e == IF letters = {} THEN n + 1 ELSE SetMin(letters)
              OpEnd(x) == RunEnd(cs, x, IsOpChar)
              Values(x) == {y \in (OpEnd(x) + 1)..e : y <= n /\ IsAlnumChar(cs[y])}
              xs == {x \in b..(e - 1) : IsOpChar(cs[x]) /\ Values(x) # {}}
          IN  IF xs = {} THEN NoTermMatch
              ELSE LET x == SetMax(xs)
                       y == SetMax(Values(x))
                       v == RunEnd(cs, y, IsAlnumChar)
                   IN  [ok |-> TRUE, operator |-> SubSeq(cs, x, OpEnd(x)),
                        value |-> SubSeq(cs, y, v), next |-> v + 1]

\* re.findall(fact_term_pattern, expression, re.IGNORECASE) from character p
RECURSIVE api_term_matches(_, _, _)
api_term_matches(cs, id, p) ==
    IF p > Len(cs) THEN <<>>
    ELSE LET Rest(m) == IF m.ok THEN <<m>> \o api_term_matches(cs, id, m.next)
                        ELSE api_term_matches(cs, id, p + 1)
         IN  Rest(api_term_match(cs, id, p))

IsBoolWord(value) ==
    Upper(value) \in {<<"T", "R", "U", "E">>, <<"F", "A", "L", "S", "E">>}

\* AL-09 .. AL-12 given the matches of fact_term_pattern in the expression
api_term_issues(self, row, fact_id, cs, term_matches) ==
      LET data_type == IF HasKey(self.fact_data, fact_id)
                       THEN Upper(Lookup(self.fact_data, fact_id).dataType) ELSE <<>>
          Some(P(_)) == \E k \in 1..Len(term_matches) : P(term_matches[k])
      IN  IF data_type = <<"ENUMERATION">>
          THEN (IF /\ CountChar(cs, "<") + CountChar(cs, ">") > 0
                   /\ Some(LAMBDA m : \E j \in 1..Len(m.operator) :
                                          m.operator[j] \in {"<", ">"})
                THEN <<ValidationIssue("Algorithms", row, "algorithm", "error",
                           "ENUMERATION fact cannot use < or > operators", fact_id)>>
                ELSE <<>>)
               \o
               (IF term_matches # <<>> /\ ~Some(LAMBDA m : IsBoolWord(m.value))
                THEN <<ValidationIssue("Algorithms", row, "algorithm", "error",
                           "ENUMERATION fact must be compared to TRUE or FALSE",
                           fact_id)>>
                ELSE <<>>)
          ELSE IF data_type = <<"INTEGER">>
          THEN IF /\ term_matches # <<>>
                  /\ \/ ~Some(LAMBDA m : m.operator \in
                                {<<"=", "=">>, <<"!", "=">>, <<"<">>, <<">">>,
                                 <<"<", "=">>, <<">", "=">>})
                     \/ Some(LAMBDA m : IsBoolWord(m.value))
               THEN <<ValidationIssue("Algorithms", row, "algorithm", "error",
                          "INTEGER fact must use comparison operators", fact_id)>>
               ELSE <<>>
          ELSE <<>>

\* AL-09 .. AL-12 for one element of fact_matches
api_fact_issues(self, row, expression, fact_id) ==
    IF fact_id \notin self.fact_ids
    THEN <<ValidationIssue("Algorithms", row, "algorithm", "error",
                           "Fact ID not found in Level Facts sheets", fact_id)>>
    ELSE LET Terms(cs) ==
                 api_term_issues(self, row, fact_id, cs,
                                 api_term_matches(cs, Chars(fact_id), 1))
         IN  Terms(Chars(expression))

\* _validate_group_boolean_mapping: the first value without a
\* derivedBooleanValue among the facts of the group, in fact_data order
api_validate_group_boolean_mapping(self, row, group_name) ==
    LET missing ==
            Concat([f \in 1..Len(self.fact_data) |->
                LET fact_data == self.fact_data[f]
                    enum_type == fact_data.enumerationType
                IN  IF /\ fact_data.factGroup = group_name
                       /\ enum_type # <<>>
                       /\ HasKey(self.enumeration_values, enum_type)
                    THEN LET values == Lookup(self.enumeration_values, enum_type).values
                         IN  Concat([k \in 1..Len(values) |->
                                 IF IsNone(values[k].derivedBooleanValue)
                                 THEN <<ValidationIssue("Algorithms", row, "algorithm",
                                            "error", "missing derivedBooleanValue",
                                            <<group_name, fact_data.key, enum_type,
                                              values[k].value>>)>>
                                 ELSE <<>>])
                    ELSE <<>>])
    IN  IF missing = <<>> THEN <<>> ELSE <<Head(missing)>>

\* _validate_algorithm_expression: the issues it adds to the category
api_validate_algorithm_expression(self, row, expression) ==
    LET cs == Chars(expression)
        upper == Upper(cs)
        Error(template, value) ==
            <<ValidationIssue("Algorithms", row, "algorithm", "error", template, value)>>
        fact_matches == api_findall(expression, 1, "fact(")
        group_matches == api_findall(expression, 1, "groups(")
        is_complete_matches == api_findall(expression, 1, "is_complete(")
    IN  (IF \/ ContainsSub(upper, <<" ", "N", "O", "T", " ">>)
            \/ ContainsSub(upper, <<"N", "O", "T", "(">>)
         THEN Error("NOT operator is no longer allowed in expressions", <<>>)
         ELSE <<>>)
        \o
        (IF CountChar(cs, "(") # CountChar(cs, ")")
         THEN Error("Unbalanced parentheses in expression", <<>>)
         ELSE <<>>)
        \o
        (IF fact_matches = <<>> /\ group_matches = <<>> /\ is_complete_matches = <<>>
         THEN Error("Expression must contain at least one call", <<>>)
         ELSE <<>>)
        \o
        Concat([k \in 1..Len(fact_matches) |->
                   api_fact_issues(self, row, expression, fact_matches[k])])
        \o
        Concat([k \in 1..Len(group_matches) |->
                   IF group_matches[k] \notin self.fact_groups
                   THEN Error("Fact group not found in Level Facts sheets",
                              group_matches[k])
                   ELSE api_validate_group_boolean_mapping(self, row,
                                                           group_matches[k])])
        \o
        (IF api_syntax_error(expression)
         THEN Error("Syntax error in expression", <<>>)
         ELSE <<>>)

\* _validate_algorithms
api_validate_algorithms(self, session_data) ==
    LET df == Sheet(session_data, "Algorithms")
        Issue(idx, field, severity, template, value) ==
            <<ValidationIssue("Algorithms", idx, field, severity, template, value)>>
    IN  Concat([i \in 1..Len(df) |->
          LET idx == i - 1
              row_dict == df[i]
              algorithm_id == api_get_str_value(row_dict, "algorithmId")
              event == Upper(api_get_str_value(row_dict, "event"))
              module_code == api_get_str_value(row_dict, "moduleCode")
              assessment_code == api_get_str_value(row_dict, "assessmentCode")
              finding_code == api_get_str_value(row_dict, "findingCode")
              algorithm == api_get_str_value(row_dict, "algorithm")
          IN  (IF api_is_empty(algorithm_id)
               THEN Issue(idx, "algorithmId", "error", "Algorithm ID is required", <<>>)
               ELSE IF algorithm_id \in api_seen(df, idx, "algorithmId")
               THEN Issue(idx, "algorithmId", "error", "Duplicate algorithm ID",
                          algorithm_id)
               ELSE <<>>)
              \o
              (IF ~api_is_empty(event) /\ event \notin
                      {<<"MODULE">>, <<"ASSESSMENT">>, <<"FINDING">>}
               THEN Issue(idx, "event", "error", "Invalid event type", event)
               ELSE <<>>)
              \o
              (IF event = <<"MODULE">>
               THEN IF api_is_empty(module_code)
                    THEN Issue(idx, "moduleCode", "error",
                               "Module code required for MODULE event", <<>>)
                    ELSE IF module_code \notin self.module_codes
                    THEN Issue(idx, "moduleCode", "error",
                               "Module code not found in Modules sheet", module_code)
                    ELSE <<>>
               ELSE IF event = <<"ASSESSMENT">>
               THEN IF api_is_empty(assessment_code)
                    THEN Issue(idx, "assessmentCode", "error",
                               "Assessment code required for ASSESSMENT event", <<>>)
                    ELSE IF assessment_code \notin self.assessment_codes
                    THEN Issue(idx, "assessmentCode", "error",
                               "Assessment code not found in Assessments sheet",
                               assessment_code)
                    ELSE <<>>
               ELSE IF event = <<"FINDING">>
               THEN IF api_is_empty(finding_code)
                    THEN Issue(idx, "findingCode", "warning",
                               "Finding code is recommended for FINDING event", <<>>)
                    ELSE IF finding_code \notin self.finding_codes
                    THEN Issue(idx, "findingCode", "error",
                               "Finding code not found in Findings sheet", finding_code)
                    ELSE <<>>
               ELSE <<>>)
              \o
              (IF ~api_is_empty(algorithm) /\ Upper(algorithm) # <<"START">>
               THEN api_validate_algorithm_expression(self, idx, algorithm)
               ELSE <<>>)])

\* _validate_findings
api_validate_findings(self, session_data) ==
    LET df == Sheet(session_data, "Findings")
        seen_codes(idx) ==
            {api_get_str_value(df[i], "findingCode") :
                i \in {i \in 1..idx :
                          LET c == api_get_str_value(df[i], "findingCode")
                          IN  ~api_is_comment(c) /\ ~api_is_empty(c)}}
    IN  Concat([i \in 1..Len(df) |->
          LET idx == i - 1
              finding_code == api_get_str_value(df[i], "findingCode")
              name == api_get_str_value(df[i], "name")
          IN  IF api_is_comment(finding_code) THEN <<>>
              ELSE IF api_is_empty(finding_code)
              THEN <<ValidationIssue("Findings", idx, "findingCode", "error",
                                     "Finding code is required", <<>>)>>
              ELSE (IF finding_code \in seen_codes(idx)
                    THEN <<ValidationIssue("Findings", idx, "findingCode", "error",
                                           "Duplicate finding code", finding_code)>>
                    ELSE <<>>)
                   \o
                   (IF api_is_empty(name)
                    THEN <<ValidationIssue("Findings", idx, "name", "warning",
                                           "Finding name is empty for", finding_code)>>
                    ELSE <<>>)])

\* _validate_findings_relationships: it reads the sheet 'Finding Relationships'
api_validate_findings_relationships(self, session_data) ==
    LET df == Sheet(session_data, "Finding Relationships")
        Issue(idx, field, severity, template, value) ==
            <<ValidationIssue("Finding Relationships", idx, field, severity,
                              template, value)>>
    IN  Concat([i \in 1..Len(df) |->
          LET idx == i - 1
              source_code == api_get_str_value(df[i], "sourceFindingCode")
              target_code == api_get_str_value(df[i], "targetFindingCode")
              rel_type == api_get_str_value(df[i], "relationshipTypeCode")
              descriptor == api_get_str_value(df[i], "descriptor")
          IN  IF api_is_comment(source_code) THEN <<>>
              ELSE
                (IF api_is_empty(source_code)
                 THEN Issue(idx, "sourceFindingCode", "error",
                            "Source finding code is required", <<>>)
                 ELSE IF source_code \notin self.finding_codes
                 THEN Issue(idx, "sourceFindingCode", "error",
                            "Source finding code not found in Findings sheet",
                            source_code)
                 ELSE <<>>)
                \o
                (IF api_is_empty(target_code)
                 THEN Issue(idx, "targetFindingCode", "error",
                            "Target finding code is required", <<>>)
                 ELSE IF target_code \notin self.finding_codes
                 THEN Issue(idx, "targetFindingCode", "error",
                            "Target finding code not found in Findings sheet",
                            target_code)
                 ELSE <<>>)
                \o
                (IF ~api_is_empty(rel_type) /\ Upper(rel_type) # <<"C", "A", "U", "S", "A", "L">>
                 THEN Issue(idx, "relationshipTypeCode", "warning",
                            "Unexpected relationship type code", rel_type)
                 ELSE <<>>)
                \o
                (IF api_is_empty(descriptor)
                 THEN Issue(idx, "descriptor", "error",
                            "Descriptor is mandatory for finding relationships", <<>>)
                 ELSE <<>>)])

\* facts_in_assessments of _validate_cross_references
api_facts_in_assessments(session_data) ==
    LET rows == api_level_rows(session_data)
    IN  {api_get_str_value(rows[i].row_dict, "assessmentId") : i \in 1..Len(rows)}
            \ {<<>>}

\* the orders in which a set can be iterated
Orders(S) ==
    {o \in [1..Cardinality(S) -> S] : \A i, j \in 1..Cardinality(S) :
                                          o[i] = o[j] => i = j}

\* _validate_cross_references, facts_in_assessments being iterated in order
api_validate_cross_references(self, session_data, order) ==
    Concat([k \in 1..Len(order) |->
        IF order[k] \notin self.assessment_codes
        THEN <<ValidationIssue("Cross-References", NoRow, NoField, "warning",
                   "Assessment referenced in Level Facts but not found", order[k])>>
        ELSE <<>>])

\* ModelValidator.validate after __init__: the results of the eight passes
api_validate(session_data, order) ==
    LET self == api_build_lookups(session_data)
        level_facts == api_validate_level_facts(self, session_data)
        Category(name, issues) == api_ValidationCategory(name, issues)
        categories ==
            <<Category("Modules", api_validate_modules(self, session_data)),
              Category("Assessments", api_validate_assessments(self, session_data)),
              Category("Enumerations", api_validate_enumerations(self, session_data))>>
            \o level_facts \o
            <<Category("Algorithms", api_validate_algorithms(self, session_data)),
              Category("Findings", api_validate_findings(self, session_data)),
              Category("Finding Relationships",
                       api_validate_findings_relationships(self, session_data)),
              Category("Cross-References",
                       api_validate_cross_references(self, session_data, order))>>
        RECURSIVE Added(_)
        Added(k) == IF k = 0 THEN self.results
                    ELSE api_add_category(Added(k - 1), categories[k])
    IN  Added(Len(categories))

(***************************************************************************)
(* src/api/validation.py: the field and row validation of the editing API. *)
(* A result is [is_valid, errors, warnings], an error [field, message,     *)
(* severity].                                                              *)
(***************************************************************************)
api_ValidationError(field, template, v, severity) ==
    [field |-> field, message |-> <<template, v>>, severity |-> severity]

api_ValidationResult(is_valid, errors, warnings) ==
    [is_valid |-> is_valid, errors |-> errors, warnings |-> warnings]

\* the value is empty: None, or a string that is blank
api_empty_value(value) == IsNone(value) \/ (IsStr(value) /\ Strip(value) = <<>>)

\* the errors of the uniqueness check of validate_field
api_unique_errors(field_name, value, column_def, existing_values, is_edit, original_value) ==
    LET compare_value == IF Truthy(value) THEN Upper(Strip(PyStr(value))) ELSE <<>>
        present == SelectSeq(existing_values, LAMBDA v : ~IsNone(v))
        existing_upper == [i \in 1..Len(present) |-> Upper(Strip(PyStr(present[i])))]
        original_upper == Upper(Strip(PyStr(original_value)))
        others == IF is_edit /\ Truthy(original_value)
                  THEN SelectSeq(existing_upper, LAMBDA v : v # original_upper)
                  ELSE existing_upper
    IN  IF \E i \in 1..Len(others) : others[i] = compare_value
        THEN <<api_ValidationError(field_name, "already exists",
                                   <<column_def.display_name, value>>, "error")>>
        ELSE <<>>

\* the errors of the type-specific validation of a value that is not empty
api_type_errors(field_name, value, column_def) ==
    CASE column_def.data_type = "string" ->
            IF /\ column_def.max_length # 0
               /\ Len(Chars(PyStr(value))) > column_def.max_length
            THEN <<api_ValidationError(field_name, "must be characters or less",
                                       <<column_def.display_name>>, "error")>>
            ELSE <<>>
      [] column_def.data_type = "boolean" ->
            IF /\ IsStr(value)
               /\ Upper(value) \notin {<<"TRUE">>, <<"FALSE">>, <<"YES">>,
                                       <<"N", "O">>, <<"1">>, <<"0">>}
            THEN <<api_ValidationError(field_name, "must be a boolean value",
                                       <<column_def.display_name>>, "error")>>
            ELSE <<>>
      [] OTHER -> <<>>

\* the warnings of the type-specific validation
api_type_warnings(field_name, value, column_def) ==
    IF /\ column_def.data_type = "string"
       /\ column_def.pattern # "" /\ ~re_match(column_def.pattern, PyStr(value))
    THEN <<api_ValidationError(field_name, "format",
               IF column_def.pattern_message # ""
               THEN <<column_def.pattern_message>>
               ELSE <<column_def.display_name, "format is not recommended">>,
               "warning")>>
    ELSE <<>>

\* validate_field of src/api/validation.py
api_validate_field(field_name, value, column_def, existing_values, is_edit, original_value) ==
    LET Checked(text) ==
            LET Result(errors) ==
                    api_ValidationResult(errors = <<>>, errors,
                        api_type_warnings(field_name, value, column_def))
            IN  Result(api_type_errors(field_name, value, column_def)
                       \o (IF column_def.unique /\ existing_values # <<>>
                           THEN api_unique_errors(field_name, text, column_def,
                                    existing_values, is_edit, original_value)
                           ELSE <<>>))
    IN  IF column_def.required /\ api_empty_value(value)
        THEN api_ValidationResult(FALSE,
                 <<api_ValidationError(field_name, "is required",
                                       <<column_def.display_name>>, "error")>>, <<>>)
        ELSE IF api_empty_value(value) THEN api_ValidationResult(TRUE, <<>>, <<>>)
        ELSE Checked(IF column_def.data_type = "string" THEN PyStr(value) ELSE value)

\* the existing values and the original value validate_row hands to
\* validate_field for a column: existing_df is the list of the stored rows
\* (None is <<>>), edit_index the 0-based index of the edited row (None is
\* NoRow)
row_existing_values(col_def, existing_df) ==
    IF col_def.unique
    THEN [i \in 1..Len(existing_df) |-> Get(existing_df[i], col_def.name)]
    ELSE <<>>

row_original_value(col_def, existing_df, is_edit, edit_index) ==
    IF /\ is_edit /\ edit_index # NoRow
       /\ edit_index < Len(row_existing_values(col_def, existing_df))
    THEN row_existing_values(col_def, existing_df)[edit_index + 1]
    ELSE NoneV

\* validate_row of src/api/validation.py
api_validate_row(row_data, sheet_name, existing_df, is_edit, edit_index) ==
    LET column_defs == get_column_definitions(sheet_name)
        Field(c) ==
            api_validate_field(column_defs[c].name, Get(row_data, column_defs[c].name),
                column_defs[c], row_existing_values(column_defs[c], existing_df),
                is_edit,
                row_original_value(column_defs[c], existing_df, is_edit, edit_index))
        Collected(all_errors, all_warnings) ==
            api_ValidationResult(all_errors = <<>>, all_errors, all_warnings)
    IN  Collected(Concat([c \in 1..Len(column_defs) |-> Field(c).errors]),
                  Concat([c \in 1..Len(column_defs) |-> Field(c).warnings]))

(***************************************************************************)
(* The state machine                                                       *)
(*                                                                         *)
(* session_data is the workbook held by the server (sheet name -> rows).   *)
(* modules .. result are the fields of the FullModelValidator instance of  *)
(* the validation in progress, api_self is the ModelValidator instance of  *)
(* src/api, pc is the step validate() has reached, and returned is the log *)
(* of the results the entry points have returned.                          *)
(***************************************************************************)
VARIABLES session_data, modules, assessments, enumerations, findings,
          findings_relationships, grouped_nodes, algorithms, fact_id_set,
          fact_group_set, build_issues, result, api_self, pc, returned

vars == <<session_data, modules, assessments, enumerations, findings,
          findings_relationships, grouped_nodes, algorithms, fact_id_set,
          fact_group_set, build_issues, result, api_self, pc, returned>>

\* the fields of the FullModelValidator instance
validator == <<modules, assessments, enumerations, findings,
               findings_relationships, grouped_nodes, algorithms, fact_id_set,
               fact_group_set, build_issues, result>>

\* the fields of the validator that the passes read
Self ==
    [modules |-> modules, assessments |-> assessments, enumerations |-> enumerations,
     findings |-> findings, findings_relationships |-> findings_relationships,
     grouped_nodes |-> grouped_nodes, algorithms |-> algorithms,
     fact_id_set |-> fact_id_set, fact_group_set |-> fact_group_set,
     build_issues |-> build_issues]

\* entry points called per behaviour
MaxRuns == 2

\* no validator has been constructed yet
NoValidator ==
    /\ modules = <<>> /\ assessments = <<>> /\ enumerations = <<>>
    /\ findings = <<>> /\ findings_relationships = <<>> /\ grouped_nodes = <<>>
    /\ algorithms = <<>> /\ fact_id_set = {} /\ fact_group_set = {}
    /\ build_issues = <<>> /\ result = NewModelResult
    /\ api_self = api_build_lookups(<<>>)
    /\ pc = "idle" /\ returned = <<>>

\* a construction that keeps the result of the validator before it;
\* C8_SameTablesSameResult tells it from Construct
ConstructKeepingResult ==
    /\ pc = "idle"
    /\ Len(returned) < MaxRuns
    /\ \E b \in {build_model(session_data)} :
           /\ modules' = b.modules
           /\ assessments' = b.assessments
           /\ enumerations' = b.enumerations
           /\ findings' = b.findings
           /\ findings_relationships' = b.findings_relationships
           /\ grouped_nodes' = b.grouped_nodes
           /\ algorithms' = b.algorithms
           /\ fact_id_set' = b.fact_id_set
           /\ fact_group_set' = b.fact_group_set
           /\ build_issues' = b.build_issues
    /\ pc' = "catalog_integrity"
    /\ UNCHANGED <<session_data, result, api_self, returned>>

\* validate_model: validator = FullModelValidator(session_data)
Construct ==
    /\ pc = "idle"
    /\ Len(returned) < MaxRuns
    /\ \E b \in {build_model(session_data)} :
           /\ modules' = b.modules
           /\ assessments' = b.assessments
           /\ enumerations' = b.enumerations
           /\ findings' = b.findings
           /\ findings_relationships' = b.findings_relationships
           /\ grouped_nodes' = b.grouped_nodes
           /\ algorithms' = b.algorithms
           /\ fact_id_set' = b.fact_id_set
           /\ fact_group_set' = b.fact_group_set
           /\ build_issues' = b.build_issues
    /\ result' = NewModelResult
    /\ pc' = "catalog_integrity"
    /\ UNCHANGED <<session_data, api_self, returned>>

\* a pass that only reports: it adds its category and moves on
Pass(here, name, issues, next) ==
    /\ pc = here
    /\ result' = add_category(result, ValidationCategory(name, issues))
    /\ pc' = next
    /\ UNCHANGED <<session_data, modules, assessments, enumerations, findings,
                   findings_relationships, grouped_nodes, algorithms, fact_id_set,
                   fact_group_set, build_issues, api_self, returned>>

\* a pass that gives up when an earlier pass recorded an error: validate()
\* returns without its category; C14_PassesInOrderOnceEach tells it from
\* AssessmentCatalog
AssessmentCatalogStopping ==
    IF result.is_valid
    THEN Pass("assessment_catalog", "Assessment Catalog",
              validate_assessment_catalog(Self), "durations")
    ELSE /\ pc = "assessment_catalog"
         /\ pc' = "return"
         /\ UNCHANGED <<session_data, validator, api_self, returned>>

CatalogIntegrity ==
    Pass("catalog_integrity", "Catalog Integrity",
         validate_catalog_integrity(Self), "assessment_catalog")

AssessmentCatalog ==
    Pass("assessment_catalog", "Assessment Catalog",
         validate_assessment_catalog(Self), "durations")

\* a duration pass that also writes the computed value into the row of the
\* caller's Assessments table; C15_InputsUntouchedNoStateKept tells it from
\* CalculateDurations
CalculateDurationsWritingBack ==
    /\ pc = "durations"
    /\ \E d \in {calculate_assessment_durations(grouped_nodes, 1,
                    [assessments |-> assessments, issues |-> <<>>])} :
           /\ assessments' = d.assessments
           /\ result' = add_category(result,
                            ValidationCategory("Duration Calculation", d.issues))
           /\ session_data' =
                  [session_data EXCEPT !["Assessments"] =
                      [r \in 1..Len(@) |->
                          IF \E j \in 1..Len(d.assessments) : d.assessments[j].row + 1 = r
                          THEN [@[r] EXCEPT !.estimatedDuration =
                                   d.assessments[CHOOSE j \in 1..Len(d.assessments) :
                                                     d.assessments[j].row + 1 = r].estimatedDuration]
                          ELSE @[r]]]
    /\ pc' = "enumerations"
    /\ UNCHANGED <<modules, enumerations, findings,
                   findings_relationships, grouped_nodes, algorithms, fact_id_set,
                   fact_group_set, build_issues, api_self, returned>>

\* the duration pass also writes the computed value into self.assessments
CalculateDurations ==
    /\ pc = "durations"
    /\ \E d \in {calculate_assessment_durations(grouped_nodes, 1,
                    [assessments |-> assessments, issues |-> <<>>])} :
           /\ assessments' = d.assessments
           /\ result' = add_category(result,
                            ValidationCategory("Duration Calculation", d.issues))
    /\ pc' = "enumerations"
    /\ UNCHANGED <<session_data, modules, enumerations, findings,
                   findings_relationships, grouped_nodes, algorithms, fact_id_set,
                   fact_group_set, build_issues, api_self, returned>>

Enumerations ==
    Pass("enumerations", "Enumerations", validate_enumerations(Self), "assessments")

Assessments ==
    Pass("assessments", "Assessments", validate_assessments(Self),
         "findings_relationships")

FindingsRelationships ==
    Pass("findings_relationships", "Findings Relationships",
         validate_findings_relationships(Self), "algorithms")

Algorithms ==
    Pass("algorithms", "Algorithms", validate_algorithms(Self), "return")

\* validate() returns self.result
Return ==
    /\ pc = "return"
    /\ returned' = Append(returned,
                      [op |-> "validate_model", sheet |-> "", enumerations |-> FALSE,
                       result |-> result])
    /\ pc' = "idle"
    /\ UNCHANGED <<session_data, validator, api_self>>

\* validate_model(session_data) as a function of the workbook: the result
\* a fresh validator returns
validate_model(sd) ==
    LET b == build_model(sd)
        r1 == add_category(NewModelResult,
                 ValidationCategory("Catalog Integrity", validate_catalog_integrity(b)))
        r2 == add_category(r1,
                 ValidationCategory("Assessment Catalog", validate_assessment_catalog(b)))
        d == calculate_assessment_durations(b.grouped_nodes, 1,
                 [assessments |-> b.assessments, issues |-> <<>>])
        b3 == [b EXCEPT !.assessments = d.assessments]
        r3 == add_category(r2, ValidationCategory("Duration Calculation", d.issues))
        r4 == add_category(r3, ValidationCategory("Enumerations", validate_enumerations(b3)))
        r5 == add_category(r4, ValidationCategory("Assessments", validate_assessments(b3)))
        r6 == add_category(r5, ValidationCategory("Findings Relationships",
                                                  validate_findings_relationships(b3)))
    IN  add_category(r6, ValidationCategory("Algorithms", validate_algorithms(b3)))

\* the sheets of a session, in the order the loader creates them
AVAILABLE_SHEETS ==
    <<"Modules", "Assessments", "Level 0 Facts", "Level 1 Facts", "Level 2 Facts",
      "Level 3 Facts", "Algorithms", "Enumerations", "Findings",
      "Findings Relationships">>

\* validate_sheet(sheet_name, df, enumerations_df) on a sheet of the session,
\* with or without the Enumerations sheet for the cross-check; the argument
\* is only read for a Level Facts sheet
ValidateSheet ==
    /\ pc = "idle"
    /\ Len(returned) < MaxRuns
    /\ \E sheet_name \in DOMAIN session_data :
       \E with_enumerations \in {b \in BOOLEAN : b => is_level_facts_sheet(sheet_name)} :
          LET enumerations_df == IF with_enumerations
                                 THEN Df(Sheet(session_data, "Enumerations"))
                                 ELSE NoDf
          IN  returned' = Append(returned,
                  [op |-> "validate_sheet", sheet |-> sheet_name,
                   enumerations |-> with_enumerations,
                   result |-> validate_sheet(sheet_name, session_data[sheet_name],
                                             enumerations_df)])
    /\ UNCHANGED <<session_data, validator, api_self, pc>>

\* api validate_model: validator = ModelValidator(session_data)
ApiConstruct ==
    /\ pc = "idle"
    /\ Len(returned) < MaxRuns
    /\ api_self' = api_build_lookups(session_data)
    /\ pc' = "api_modules"
    /\ UNCHANGED <<session_data, validator, returned>>

\* a pass of ModelValidator.validate: it adds its categories to self.results
ApiPass(here, categories, next) ==
    /\ pc = here
    /\ LET RECURSIVE Added(_)
           Added(k) == IF k = 0 THEN api_self.results
                       ELSE api_add_category(Added(k - 1), categories[k])
       IN  api_self' = [api_self EXCEPT !.results = Added(Len(categories))]
    /\ pc' = next
    /\ UNCHANGED <<session_data, validator, returned>>

ApiModules ==
    ApiPass("api_modules",
            <<api_ValidationCategory("Modules",
                                     api_validate_modules(api_self, session_data))>>,
            "api_assessments")

ApiAssessments ==
    ApiPass("api_assessments",
            <<api_ValidationCategory("Assessments",
                  api_validate_assessments(api_self, session_data))>>,
            "api_enumerations")

ApiEnumerations ==
    ApiPass("api_enumerations",
            <<api_ValidationCategory("Enumerations",
                  api_validate_enumerations(api_self, session_data))>>,
            "api_level_facts")

ApiLevelFacts ==
    ApiPass("api_level_facts", api_validate_level_facts(api_self, session_data),
            "api_algorithms")

ApiAlgorithms ==
    ApiPass("api_algorithms",
            <<api_ValidationCategory("Algorithms",
                  api_validate_algorithms(api_self, session_data))>>,
            "api_findings")

ApiFindings ==
    ApiPass("api_findings",
            <<api_ValidationCategory("Findings",
                  api_validate_findings(api_self, session_data))>>,
            "api_findings_relationships")

ApiFindingsRelationships ==
    ApiPass("api_findings_relationships",
            <<api_ValidationCategory("Finding Relationships",
                  api_validate_findings_relationships(api_self, session_data))>>,
            "api_cross_references")

\* facts_in_assessments is a set of str: its iteration order is not fixed
ApiCrossReferences ==
    \E order \in Orders(api_facts_in_assessments(session_data)) :
        ApiPass("api_cross_references",
                <<api_ValidationCategory("Cross-References",
                      api_validate_cross_references(api_self, session_data, order))>>,
                "api_return")

\* validate_model returns results.to_dict()
ApiReturn ==
    /\ pc = "api_return"
    /\ returned' = Append(returned,
                      [op |-> "api_validate_model", sheet |-> "",
                       enumerations |-> FALSE, result |-> api_self.results])
    /\ pc' = "idle"
    /\ UNCHANGED <<session_data, validator, api_self>>

Next ==
    \/ Construct \/ CatalogIntegrity \/ AssessmentCatalog \/ CalculateDurations
    \/ Enumerations \/ Assessments \/ FindingsRelationships \/ Algorithms \/ Return
    \/ ValidateSheet
    \/ ApiConstruct \/ ApiModules \/ ApiAssessments \/ ApiEnumerations
    \/ ApiLevelFacts \/ ApiAlgorithms \/ ApiFindings \/ ApiFindingsRelationships
    \/ ApiCrossReferences \/ ApiReturn

(***************************************************************************)
(* Workbooks.  A session holds every sheet of AVAILABLE_SHEETS; a cell the *)
(* workbook leaves blank is None.  The workbooks below are a valid model   *)
(* and its variations on the sheet a property is about.                    *)
(***************************************************************************)
\* rows per varied sheet
MaxRows == 2

SheetNames == {AVAILABLE_SHEETS[i] : i \in 1..Len(AVAILABLE_SHEETS)}

\* the session with the given sheets, the others being empty
Workbook(given) ==
    [n \in SheetNames |-> IF n \in DOMAIN given THEN given[n] ELSE <<>>]

\* the sequences of at most MaxRows rows of S
RowsUpTo(S) == UNION {[1..k -> S] : k \in 0..MaxRows}

ModuleRow(code, name) ==
    [moduleCode |-> code, isUserAssignable |-> TrueV, name |-> name]

AssessmentRow(code, module, duration) ==
    [level |-> <<"1">>, assessmentCode |-> code, moduleCode |-> module,
     isUserAssignable |-> FalseV, name |-> <<"N">>, estimatedDuration |-> duration]

FactRow(assessment, node, fact, group, data_type, deterministic, range, enumeration_type, target) ==
    [assessmentId |-> assessment, nodeId |-> node, factId |-> fact,
     factGroup |-> group, nodeText |-> <<"T">>, dataType |-> data_type,
     isDeterministic |-> deterministic, range |-> range,
     enumerationType |-> enumeration_type, target |-> target,
     isRestartPoint |-> FalseV]

EnumerationRow(type, seq, value, derived) ==
    [enumerationType |-> type, seq |-> seq, value |-> value, derivedValue |-> derived]

FindingRow(code, name) == [findingCode |-> code, name |-> name]

AlgorithmRow(id, assessment, event, algorithm) ==
    [algorithmId |-> id, assessmentCode |-> assessment, event |-> event,
     priority |-> <<"1">>, algorithm |-> algorithm]

\* fact('F1') == TRUE and fact('F2') == FALSE
FactsEqual ==
    <<"fact(", "'", "F", "1", "'", ")", " ", "==", " ", "TRUE", " ", "and", " ",
      "fact(", "'", "F", "2", "'", ")", " ", "==", " ", "FALSE">>

\* fact('F1') < TRUE and fact('F2') == FALSE
FactsLess ==
    <<"fact(", "'", "F", "1", "'", ")", " ", "<", " ", "TRUE", " ", "and", " ",
      "fact(", "'", "F", "2", "'", ")", " ", "==", " ", "FALSE">>

\* groups('G1').response(True) >= 2
GroupResponse ==
    <<"groups(", "'", "G", "1", "'", ")", ".response(", "True", ")", " ", ">=", " ", "2">>

\* fact('NOPE') == True
UnknownFact ==
    <<"fact(", "'", "N", "O", "P", "E", "'", ")", " ", "==", " ", "True">>

\* the nodes of assessment A1: two ENUMERATION facts of group G1
BaseFacts ==
    <<FactRow(<<"A", "1">>, <<"N", "1">>, <<"F", "1">>, <<"G", "1">>,
              <<"ENUMERATION">>, TrueV, NoneV, <<"E", "1">>, <<"N", "2">>),
      FactRow(<<"A", "1">>, <<"N", "2">>, <<"F", "2">>, <<"G", "1">>,
              <<"ENUMERATION">>, TrueV, NoneV, <<"E", "1">>, <<"EXIT">>)>>

\* a model that every validator of src/validation accepts
BaseSheets ==
    ("Modules" :> <<ModuleRow(<<"M", "1">>, <<"N">>)>>)
    @@ ("Assessments" :> <<AssessmentRow(<<"A", "1">>, <<"M", "1">>, NoneV)>>)
    @@ ("Level 1 Facts" :> BaseFacts)
    @@ ("Enumerations" :> <<EnumerationRow(<<"E", "1">>, <<"1">>, <<"yes">>, TrueV),
                            EnumerationRow(<<"E", "1">>, <<"2">>, <<"n", "o">>, FalseV)>>)
    @@ ("Findings" :> <<FindingRow(<<"X", "1">>, <<"N">>)>>)
    @@ ("Algorithms" :> <<AlgorithmRow(<<"A", "L", "G", "_", "0", "0", "1">>,
                                       <<"A", "1">>, <<"ASSESSMENT">>, FactsEqual)>>)

\* rows whose keys collide up to case and surrounding blanks, and rows whose
\* keys do not
ModuleRows ==
    {ModuleRow(code, name) : code \in {<<"M", "1">>, <<" ", "m", "1">>, <<"M", "2">>},
                             name \in {<<"N">>, <<"P">>}}

AssessmentRows ==
    {AssessmentRow(code, module, NoneV) :
        code \in {<<"A", "1">>, <<"a", "1", " ">>, <<"A", "2">>},
        module \in {<<"M", "1">>, <<"M", "9">>}}

FindingRows ==
    {FindingRow(code, name) : code \in {<<"X", "1">>, <<"x", "1">>, <<"X", "2">>},
                              name \in {<<"N">>, <<"P">>}}

AlgorithmIdRows ==
    {AlgorithmRow(id, <<"A", "1">>, <<"ASSESSMENT">>, FactsEqual) :
        id \in {<<"A", "L", "G", "_", "0", "0", "1">>,
                <<"a", "l", "g", "_", "0", "0", "1">>,
                <<"A", "L", "G", "_", "0", "0", "2">>}}

\* the base model with one of the keyed tables replaced
CatalogWorkbooks ==
    {Workbook(("Modules" :> rows) @@ BaseSheets) : rows \in RowsUpTo(ModuleRows)}
    \cup {Workbook(("Assessments" :> rows) @@ BaseSheets) :
             rows \in RowsUpTo(AssessmentRows)}
    \cup {Workbook(("Findings" :> rows) @@ BaseSheets) : rows \in RowsUpTo(FindingRows)}
    \cup {Workbook(("Algorithms" :> rows) @@ BaseSheets) :
             rows \in RowsUpTo(AlgorithmIdRows)}

InitCatalog == NoValidator /\ session_data \in CatalogWorkbooks

SpecCatalog == InitCatalog /\ [][Next]_vars

\* k valid INTEGER nodes of assessment A1, on the rows before the varied one
IntegerNodes(k) ==
    [i \in 1..k |->
        FactRow(<<"A", "1">>, <<"P", IntStr(i)[1]>>, NoneV, NoneV, <<"INTEGER">>,
                TrueV, <<"0", "-", "9">>, NoneV, <<"EXIT">>)]

\* a Fact row for each way of filling assessmentId, nodeId, dataType and range
RangeRows ==
    {FactRow(assessment, node, NoneV, NoneV, data_type, TrueV, range, NoneV,
             <<"EXIT">>) :
        assessment \in {<<"A", "1">>, NoneV},
        node \in {<<"N", "1">>, NoneV},
        data_type \in {<<"INTEGER">>, <<"integer">>, <<"STATEMENT">>},
        range \in {NoneV, <<"0", "-", "1", "0", "0">>, <<"a", "b", "c">>}}

\* the base model with a Level 1 Facts sheet of valid INTEGER nodes and one
\* varied row
FactWorkbooks ==
    {Workbook(("Level 1 Facts" :> Append(IntegerNodes(k), row))
              @@ ("Algorithms" :> <<>>) @@ BaseSheets) :
        k \in 0..(MaxRows - 1), row \in RangeRows}

InitFacts == NoValidator /\ session_data \in FactWorkbooks

SpecFacts == InitFacts /\ [][Next]_vars

\* an Algorithms row for each event, assessmentCode and expression
AlgorithmRows ==
    {AlgorithmRow(<<"A", "L", "G", "_", "0", "0", "1">>, assessment, event, algorithm) :
        assessment \in {<<"A", "1">>, <<"a", "1">>, <<"A", "9">>,
                        <<"A", "1", ",", "A", "9">>, <<"A", "1", ",", " ", "a", "1">>},
        event \in {<<"ASSESSMENT">>, <<"BOGUS">>},
        algorithm \in {FactsEqual, FactsLess, GroupResponse, UnknownFact}}

\* k further rows, each with an expression that names an unknown fact
LaterAlgorithms(k) ==
    [i \in 1..k |->
        AlgorithmRow(<<"A", "L", "G", "_", "0", "0", IntStr(i + 1)[1]>>,
                     <<"A", "1">>, <<"ASSESSMENT">>, UnknownFact)]

\* the Enumerations sheet, the value 'no' with or without a boolean mapping
EnumerationSheets ==
    {<<EnumerationRow(<<"E", "1">>, <<"1">>, <<"yes">>, TrueV),
       EnumerationRow(<<"E", "1">>, <<"2">>, <<"n", "o">>, derived)>> :
        derived \in {FalseV, NoneV}}

\* the base model with one varied Algorithms row, followed by at most
\* MaxRows - 1 further rows
AlgorithmWorkbooks ==
    {Workbook(("Algorithms" :> <<row>> \o LaterAlgorithms(k))
              @@ ("Enumerations" :> enumeration_rows) @@ BaseSheets) :
        row \in AlgorithmRows, k \in 0..(MaxRows - 1),
        enumeration_rows \in EnumerationSheets}

InitAlgorithms == NoValidator /\ session_data \in AlgorithmWorkbooks

SpecAlgorithms == InitAlgorithms /\ [][Next]_vars

\* the kinds of node of the duration matrix the workbooks use
DurationNodes ==
    {FactRow(<<"A", "1">>, <<"N", "1">>, NoneV, NoneV, data_type, deterministic,
             NoneV, NoneV, <<"EXIT">>) :
        data_type \in {<<"STATEMENT">>, <<"CONVERSATION">>},
        deterministic \in {TrueV, FalseV}}

\* the nodes of a sheet get the nodeIds N1, N2, ... in row order
Numbered(rows) ==
    [i \in 1..Len(rows) |-> [rows[i] EXCEPT !.nodeId = <<"N", IntStr(i)[1]>>]]

\* assessment A1 with or without an estimatedDuration and with at most
\* MaxRows nodes
DurationWorkbooks ==
    {Workbook(("Assessments" :> <<AssessmentRow(<<"A", "1">>, <<"M", "1">>, duration)>>)
              @@ ("Level 1 Facts" :> Numbered(rows))
              @@ ("Algorithms" :> <<>>) @@ BaseSheets) :
        duration \in {NoneV, <<"5", " ", "minutes">>, <<" ">>, <<"<NULL>">>},
        rows \in RowsUpTo(DurationNodes)}

InitDurations == NoValidator /\ session_data \in DurationWorkbooks

SpecDurations == InitDurations /\ [][Next]_vars

\* the session create_new_workbook returns: every sheet, no rows
EmptyWorkbooks == {Workbook(<<>>)}

InitEmpty == NoValidator /\ session_data \in EmptyWorkbooks

SpecEmpty == InitEmpty /\ [][Next]_vars

Init ==
    /\ NoValidator
    /\ session_data \in CatalogWorkbooks \cup FactWorkbooks \cup AlgorithmWorkbooks
                            \cup DurationWorkbooks \cup EmptyWorkbooks

Spec == Init /\ [][Next]_vars

(***************************************************************************)
(* The field and row entry points.  The caller submits a value or a row    *)
(* for a sheet of the session; the stored rows of the sheet are the        *)
(* existing table.                                                         *)
(***************************************************************************)
\* the column definition of a field of a sheet
ColumnOf(sheet_name, field_name) ==
    LET defs == get_column_definitions(sheet_name)
    IN  defs[CHOOSE c \in 1..Len(defs) : defs[c].name = field_name]

\* the fields a caller submits: a required unique code, a required boolean,
\* an optional text and an optional integer
SubmittedFields ==
    {<<"Modules", "moduleCode">>, <<"Modules", "isUserAssignable">>,
     <<"Modules", "description">>, <<"Algorithms", "priority">>}

\* the values a caller submits for a field
SubmittedValues ==
    {NoneV, <<" ">>, <<"M", "1">>, <<"m", "2", " ">>, <<"x", "!">>, TrueV}

\* the ways of calling for an edit: is_edit with the original value, which is
\* None or a value of the column
EditModes(existing_values) ==
    {<<FALSE, NoneV>>, <<TRUE, NoneV>>}
    \cup {<<TRUE, existing_values[i]>> : i \in 1..Len(existing_values)}

\* the existing values a caller may supply for a field: none, or the column
\* of the stored sheet
SuppliedValues(sheet_name, field_name) ==
    {<<>>, [i \in 1..Len(session_data[sheet_name]) |->
               Get(session_data[sheet_name][i], field_name)]}

FieldCall(op, sheet_name, args, res) ==
    [op |-> op, sheet |-> sheet_name, enumerations |-> FALSE, args |-> args,
     result |-> res]

\* validate_field(field_name, value, sheet_name, existing_values, is_edit,
\* original_value)
ValidateField ==
    /\ pc = "idle"
    /\ Len(returned) < MaxRuns
    /\ \E f \in SubmittedFields : \E value \in SubmittedValues :
       \E existing_values \in SuppliedValues(f[1], f[2]) :
       \E mode \in EditModes(existing_values) :
          returned' = Append(returned,
              FieldCall("validate_field", f[1],
                  [column_def |-> ColumnOf(f[1], f[2]), value |-> value,
                   existing_values |-> existing_values, is_edit |-> mode[1],
                   original_value |-> mode[2]],
                  add_issues(NewResult,
                      validate_field(f[2], value, f[1], existing_values, mode[1],
                                     mode[2], ColumnOf(f[1], f[2])))))
    /\ UNCHANGED <<session_data, validator, api_self, pc>>

\* validate_field(field_name, value, column_def, existing_values, is_edit,
\* original_value) of src/api/validation.py
ApiValidateField ==
    /\ pc = "idle"
    /\ Len(returned) < MaxRuns
    /\ \E f \in SubmittedFields : \E value \in SubmittedValues :
       \E existing_values \in SuppliedValues(f[1], f[2]) :
       \E mode \in EditModes(existing_values) :
          returned' = Append(returned,
              FieldCall("api_validate_field", f[1],
                  [column_def |-> ColumnOf(f[1], f[2]), value |-> value,
                   existing_values |-> existing_values, is_edit |-> mode[1],
                   original_value |-> mode[2]],
                  api_validate_field(f[2], value, ColumnOf(f[1], f[2]),
                                     existing_values, mode[1], mode[2])))
    /\ UNCHANGED <<session_data, validator, api_self, pc>>

\* the rows a caller submits for the Modules sheet
SubmittedRows ==
    {ModuleRow(code, <<"N">>) :
        code \in {NoneV, <<"M", "1">>, <<"m", "2", " ">>, <<"M", "3">>}}

\* the ways of calling validate_row for the stored table df: without the
\* table, to add a row, or to edit the row at a 0-based index
RowModes(df) ==
    {[existing_df |-> <<>>, is_edit |-> FALSE, edit_index |-> NoRow],
     [existing_df |-> df, is_edit |-> FALSE, edit_index |-> NoRow],
     [existing_df |-> df, is_edit |-> TRUE, edit_index |-> NoRow]}
    \cup {[existing_df |-> df, is_edit |-> TRUE, edit_index |-> i] : i \in 0..Len(df)}

\* validate_row(row_data, sheet_name, existing_df, is_edit, edit_index)
ValidateRow ==
    /\ pc = "idle"
    /\ Len(returned) < MaxRuns
    /\ \E row_data \in SubmittedRows : \E mode \in RowModes(session_data["Modules"]) :
          returned' = Append(returned,
              FieldCall("validate_row", "Modules",
                  [row_data |-> row_data, existing_df |-> mode.existing_df,
                   is_edit |-> mode.is_edit, edit_index |-> mode.edit_index],
                  validate_row_result(row_data, "Modules", mode.existing_df,
                                      mode.is_edit, mode.edit_index, NoRow)))
    /\ UNCHANGED <<session_data, validator, api_self, pc>>

\* validate_row of src/api/validation.py
ApiValidateRow ==
    /\ pc = "idle"
    /\ Len(returned) < MaxRuns
    /\ \E row_data \in SubmittedRows : \E mode \in RowModes(session_data["Modules"]) :
          returned' = Append(returned,
              FieldCall("api_validate_row", "Modules",
                  [row_data |-> row_data, existing_df |-> mode.existing_df,
                   is_edit |-> mode.is_edit, edit_index |-> mode.edit_index],
                  api_validate_row(row_data, "Modules", mode.existing_df,
                                   mode.is_edit, mode.edit_index)))
    /\ UNCHANGED <<session_data, validator, api_self, pc>>

NextField == ValidateField \/ ApiValidateField \/ ValidateRow \/ ApiValidateRow

\* the stored Modules table: rows with a code, in either case, or without
StoredModuleRows ==
    {ModuleRow(code, <<"N">>) : code \in {<<"M", "1">>, <<" ", "m", "2">>, NoneV}}

FieldWorkbooks ==
    {Workbook("Modules" :> rows) : rows \in RowsUpTo(StoredModuleRows)}

InitField == NoValidator /\ session_data \in FieldWorkbooks

SpecField == InitField /\ [][NextField]_vars

(***************************************************************************)
(* The aggregation containers on their own (src/validation/base.py): a     *)
(* caller holds a ModelValidationResult that started valid and empty and   *)
(* applies add_issue, merge and add_category to it.  What is merged or     *)
(* added was itself built from a new container by add_issue.               *)
(***************************************************************************)
\* issues the result of a behaviour holds at most
MaxIssues == 4

\* an issue of every severity
ContainerIssues ==
    {ValidationIssue("Modules", NoRow, "moduleCode", severity, "is required",
                     <<"Module Code">>) : severity \in {"error", "warning", "info"}}

\* the lists of at most n issues
IssueLists(n) == UNION {[1..k -> ContainerIssues] : k \in 0..n}

\* the names of the categories added
CategoryNames == {"Catalog Integrity", "Assessments"}

\* result.add_issue(issue)
AddIssue ==
    /\ Len(result.issues) < MaxIssues
    /\ \E issue \in ContainerIssues : result' = add_issue(result, issue)
    /\ UNCHANGED <<session_data, modules, assessments, enumerations, findings, findings_relationships, grouped_nodes, algorithms, fact_id_set, fact_group_set, build_issues, api_self, pc, returned>>

\* result.merge(other), other a ValidationResult built by add_issue
Merge ==
    /\ \E issues \in IssueLists(MaxIssues - Len(result.issues)) :
           result' = merge(result, add_issues(NewResult, issues))
    /\ UNCHANGED <<session_data, modules, assessments, enumerations, findings, findings_relationships, grouped_nodes, algorithms, fact_id_set, fact_group_set, build_issues, api_self, pc, returned>>

\* result.add_category(category), category built by add_issue
AddCategory ==
    /\ \E name \in CategoryNames, issues \in IssueLists(MaxIssues - Len(result.issues)) :
           result' = add_category(result, category_add_issues(NewCategory(name), issues))
    /\ UNCHANGED <<session_data, modules, assessments, enumerations, findings, findings_relationships, grouped_nodes, algorithms, fact_id_set, fact_group_set, build_issues, api_self, pc, returned>>

NextContainers == AddIssue \/ Merge \/ AddCategory

InitContainers == NoValidator /\ session_data \in EmptyWorkbooks

SpecContainers == InitContainers /\ [][NextContainers]_vars

(***************************************************************************)
(* Workbooks for the routing of nodes: a Level 1 Facts sheet whose rows    *)
(* vary in assessment, dataType and target; the enumeration type E1 of the *)
(* base model has two values.                                              *)
(***************************************************************************)
\* N1|N2 and N1|N2|EXIT
TwoTargets == <<"N", "1", "|", "N", "2">>
ThreeTargets == <<"N", "1", "|", "N", "2", "|", "EXIT">>

TargetRows ==
    {FactRow(assessment, <<"N", "0">>, NoneV, NoneV, data_type, TrueV, NoneV,
             IF data_type = <<"ENUMERATION">> THEN <<"E", "1">> ELSE NoneV, target) :
        assessment \in {<<"A", "1">>, <<"A", "2">>},
        data_type \in {<<"STATEMENT">>, <<"ENUMERATION">>},
        target \in {<<"EXIT">>, <<"N", "2">>, TwoTargets, ThreeTargets, NoneV}}

\* assessments A1 and A2 in the catalog, the nodes numbered N1, N2, ... in
\* row order
TargetWorkbooks ==
    {Workbook(("Assessments" :> <<AssessmentRow(<<"A", "1">>, <<"M", "1">>, NoneV),
                                  AssessmentRow(<<"A", "2">>, <<"M", "1">>, NoneV)>>)
              @@ ("Level 1 Facts" :> Numbered(rows))
              @@ ("Algorithms" :> <<>>) @@ BaseSheets) :
        rows \in RowsUpTo(TargetRows)}

InitTargets == NoValidator /\ session_data \in TargetWorkbooks

SpecTargets == InitTargets /\ [][Next]_vars

(***************************************************************************)
(* Workbooks for the grouping of nodes: Fact rows of the assessments A1    *)
(* and A2 on three Level Facts sheets.                                     *)
(***************************************************************************)
SheetNode(assessment) ==
    FactRow(assessment, <<"N", "0">>, NoneV, NoneV, <<"STATEMENT">>, TrueV, NoneV,
            NoneV, <<"EXIT">>)

\* the second sheet writes A1 in lower case
SheetWorkbooks ==
    {Workbook(("Assessments" :> <<AssessmentRow(<<"A", "1">>, <<"M", "1">>, NoneV),
                                  AssessmentRow(<<"A", "2">>, <<"M", "1">>, NoneV)>>)
              @@ ("Level 1 Facts" :> Numbered(first))
              @@ ("Level 2 Facts" :> Numbered(second))
              @@ ("Level 3 Facts" :> Numbered(third))
              @@ ("Algorithms" :> <<>>) @@ BaseSheets) :
        first \in RowsUpTo({SheetNode(<<"A", "1">>), SheetNode(<<"A", "2">>)}),
        second \in RowsUpTo({SheetNode(<<"a", "1">>), SheetNode(<<"A", "2">>)}),
        third \in {<<>>, <<SheetNode(<<"A", "1">>)>>, <<SheetNode(<<"A", "2">>)>>}}

InitSheets == NoValidator /\ session_data \in SheetWorkbooks

SpecSheets == InitSheets /\ [][Next]_vars

(***************************************************************************)
(* Workbooks for the identifiers of nodes: ENUMERATION nodes of the        *)
(* assessments A1 and A2 whose nodeId and factId repeat or not.            *)
(***************************************************************************)
IdentifiedNodes ==
    {FactRow(assessment, node, fact, NoneV, <<"ENUMERATION">>, TrueV, NoneV,
             <<"E", "1">>, <<"EXIT">>) :
        assessment \in {<<"A", "1">>, <<"A", "2">>},
        node \in {<<"N", "1">>, <<"N", "2">>},
        fact \in {<<"F", "1">>, <<"F", "2">>, NoneV}}

IdentifierWorkbooks ==
    {Workbook(("Assessments" :> <<AssessmentRow(<<"A", "1">>, <<"M", "1">>, NoneV),
                                  AssessmentRow(<<"A", "2">>, <<"M", "1">>, NoneV)>>)
              @@ ("Level 1 Facts" :> rows)
              @@ ("Algorithms" :> <<>>) @@ BaseSheets) :
        rows \in RowsUpTo(IdentifiedNodes)}

InitIdentifiers == NoValidator /\ session_data \in IdentifierWorkbooks

SpecIdentifiers == InitIdentifiers /\ [][Next]_vars

(***************************************************************************)
(* Workbooks for the values of enumerations: Enumerations rows of the      *)
(* types E1 and E2 whose value repeats or not.                             *)
(***************************************************************************)
ValueRows ==
    {EnumerationRow(type, <<"1">>, value, TrueV) :
        type \in {<<"E", "1">>, <<"E", "2">>},
        value \in {<<"yes">>, <<" ", "yes">>, <<"n", "o">>}}

ValueWorkbooks ==
    {Workbook(("Enumerations" :> rows) @@ BaseSheets) : rows \in RowsUpTo(ValueRows)}

InitValues == NoValidator /\ session_data \in ValueWorkbooks

SpecValues == InitValues /\ [][Next]_vars

(***************************************************************************)
(* Workbooks for the typing of nodes: a Level 1 Facts sheet of valid       *)
(* INTEGER nodes and one row that varies in dataType, enumerationType and  *)
(* factId; the Enumerations sheet defines the type E1.                     *)
(***************************************************************************)
TypedNodes ==
    {FactRow(<<"A", "1">>, <<"N", "1">>, fact, NoneV, data_type, TrueV,
             IF data_type = <<"INTEGER">> THEN <<"0", "-", "9">> ELSE NoneV,
             enumeration_type, <<"EXIT">>) :
        fact \in {<<"F", "1">>, NoneV},
        data_type \in {<<"STATEMENT">>, <<"CONVERSATION">>, <<"INTEGER">>,
                       <<"ENUMERATION">>},
        enumeration_type \in {<<"E", "1">>, <<"E", "9">>, NoneV}}

TypedWorkbooks ==
    {Workbook(("Level 1 Facts" :> Append(IntegerNodes(k), row))
              @@ ("Algorithms" :> <<>>) @@ BaseSheets) :
        k \in 0..(MaxRows - 1), row \in TypedNodes}

InitTyped == NoValidator /\ session_data \in TypedWorkbooks

SpecTyped == InitTyped /\ [][Next]_vars

(***************************************************************************)
(* Workbooks for the finding of a rule: an Algorithms row of event FINDING *)
(* with a findingCode that is empty, written as the catalog writes it,     *)
(* padded, in lower case, or unknown; the Findings sheet holds X1 or       *)
(* nothing.                                                                *)
(***************************************************************************)
FindingAlgorithms ==
    {AlgorithmRow(<<"A", "L", "G", "_", "0", "0", "1">>, NoneV, event, algorithm)
        @@ ("findingCode" :> code) :
        event \in {<<"FINDING">>, <<"finding">>},
        code \in {NoneV, <<"X", "1">>, <<" ", "X", "1">>, <<"x", "1">>, <<"X", "9">>},
        algorithm \in {FactsEqual, UnknownFact}}

FindingWorkbooks ==
    {Workbook(("Algorithms" :> <<row>> \o LaterAlgorithms(k))
              @@ ("Findings" :> finding_rows) @@ BaseSheets) :
        row \in FindingAlgorithms, k \in 0..(MaxRows - 1),
        finding_rows \in {<<>>, <<FindingRow(<<"X", "1">>, <<"N">>)>>}}

InitFindings == NoValidator /\ session_data \in FindingWorkbooks

SpecFindings == InitFindings /\ [][Next]_vars

(***************************************************************************)
(* Workbooks for the expression of a rule: the base model, whose facts F1  *)
(* and F2 belong to the group G1, with one Algorithms row of assessment A1 *)
(* whose expression varies, followed by at most MaxRows - 1 further rows.  *)
(***************************************************************************)
\* not fact('F1') == True
NotAtStart ==
    <<"not", " ", "fact(", "'", "F", "1", "'", ")", " ", "==", " ", "True">>

\* fact('F1') == True and (not fact('F2') == True)
NotAfterParenthesis ==
    <<"fact(", "'", "F", "1", "'", ")", " ", "==", " ", "True", " ", "and",
      " ", "(", "not", " ", "fact(", "'", "F", "2", "'", ")", " ", "==", " ",
      "True", ")">>

\* fact('F1') == True and not fact('F2') == True
NotBetweenTerms ==
    <<"fact(", "'", "F", "1", "'", ")", " ", "==", " ", "True", " ", "and",
      " ", "not", " ", "fact(", "'", "F", "2", "'", ")", " ", "==", " ",
      "True">>

\* fact('F1') == True AND NOT fact('F2') == True
NotBetweenTermsUpper ==
    <<"fact(", "'", "F", "1", "'", ")", " ", "==", " ", "True", " ", "AND",
      " ", "NOT", " ", "fact(", "'", "F", "2", "'", ")", " ", "==", " ",
      "True">>

\* not(fact('F1') == True)
NotCall ==
    <<"not(", "fact(", "'", "F", "1", "'", ")", " ", "==", " ", "True", ")">>

\* NOT(fact('F1') == True)
NotCallUpper ==
    <<"NOT(", "fact(", "'", "F", "1", "'", ")", " ", "==", " ", "True", ")">>

\* groups('G1').response(True) >= 1 and fact('F1') == True
GroupThenFact ==
    <<"groups(", "'", "G", "1", "'", ")", ".response(", "True", ")", " ",
      ">=", " ", "1", " ", "and", " ", "fact(", "'", "F", "1", "'", ")", " ",
      "==", " ", "True">>

\* fact('F1') != True
FactUnequal ==
    <<"fact(", "'", "F", "1", "'", ")", " ", "!=", " ", "True">>

\* fact('F1') <= True
FactAtMost ==
    <<"fact(", "'", "F", "1", "'", ")", " ", "<=", " ", "True">>

\* fact('F1') < True or fact('F2') > True
FactsOrdered ==
    <<"fact(", "'", "F", "1", "'", ")", " ", "<", " ", "True", " ", "or",
      " ", "fact(", "'", "F", "2", "'", ")", " ", ">", " ", "True">>

\* fact('F1')>True
FactTight ==
    <<"fact(", "'", "F", "1", "'", ")", ">", "True">>

\* groups('G1').response(True) >= fact('F1')
GroupAgainstFact ==
    <<"groups(", "'", "G", "1", "'", ")", ".response(", "True", ")", " ",
      ">=", " ", "fact(", "'", "F", "1", "'", ")">>

\* True
BareLiteral ==
    <<"True">>

\* 1 == 1
BareComparison ==
    <<"1", " ", "==", " ", "1">>

\* is_complete('A1')
CompleteOnly ==
    <<"is_complete(", "'", "A", "1", "'", ")">>

\* is_complete('A1') and is_complete('A1')
CompleteTwice ==
    <<"is_complete(", "'", "A", "1", "'", ")", " ", "and", " ",
      "is_complete(", "'", "A", "1", "'", ")">>

\* fact('F1') == True and is_complete('A1')
FactAndComplete ==
    <<"fact(", "'", "F", "1", "'", ")", " ", "==", " ", "True", " ", "and",
      " ", "is_complete(", "'", "A", "1", "'", ")">>

ExpressionTexts ==
    {FactsEqual, FactsLess, GroupResponse, UnknownFact,
     NotAtStart, NotAfterParenthesis, NotBetweenTerms,
     NotBetweenTermsUpper, NotCall, NotCallUpper,
     GroupThenFact, FactUnequal, FactAtMost,
     FactsOrdered, FactTight, GroupAgainstFact,
     BareLiteral, BareComparison, CompleteOnly,
     CompleteTwice, FactAndComplete}

ExpressionWorkbooks ==
    {Workbook(("Algorithms" :>
                  <<AlgorithmRow(<<"A", "L", "G", "_", "0", "0", "1">>, <<"A", "1">>,
                                 <<"ASSESSMENT">>, text)>> \o LaterAlgorithms(k))
              @@ BaseSheets) :
        text \in ExpressionTexts, k \in 0..(MaxRows - 1)}

InitExpressions == NoValidator /\ session_data \in ExpressionWorkbooks

SpecExpressions == InitExpressions /\ [][Next]_vars

(***************************************************************************)
(* Workbooks for the references of a rule: the facts F1 and F2 of group G1 *)
(* on Level 1 Facts under assessment A1; Level 2 Facts empty, or with the  *)
(* fact F3 of group G3 under A1 or under A2; one Algorithms row that       *)
(* refers to facts or groups, followed by at most MaxRows - 1 further rows.*)
(***************************************************************************)
\* fact('F3') == True
FactOnSecondSheet ==
    <<"fact(", "'", "F", "3", "'", ")", " ", "==", " ", "True">>

\* groups('G3').response(True) >= 1
GroupOnSecondSheet ==
    <<"groups(", "'", "G", "3", "'", ")", ".response(", "True", ")", " ", ">=", " ", "1">>

\* fact('f1') == True
FactLowerCase ==
    <<"fact(", "'", "f", "1", "'", ")", " ", "==", " ", "True">>

\* fact('NOPE') == True and fact('NOPE') == False
UnknownFactTwice ==
    <<"fact(", "'", "N", "O", "P", "E", "'", ")", " ", "==", " ", "True", " ", "and", " ",
      "fact(", "'", "N", "O", "P", "E", "'", ")", " ", "==", " ", "False">>

\* groups('NOPE').response(True) >= 1 and fact('F1') == True
UnknownGroup ==
    <<"groups(", "'", "N", "O", "P", "E", "'", ")", ".response(", "True", ")", " ", ">=",
      " ", "1", " ", "and", " ", "fact(", "'", "F", "1", "'", ")", " ", "==", " ", "True">>

ReferenceTexts ==
    {FactsEqual, GroupResponse, FactOnSecondSheet, GroupOnSecondSheet, FactLowerCase,
     UnknownFactTwice, UnknownGroup}

SecondSheetNode(assessment) ==
    FactRow(assessment, <<"N", "3">>, <<"F", "3">>, <<"G", "3">>, <<"ENUMERATION">>,
            TrueV, NoneV, <<"E", "1">>, <<"EXIT">>)

ReferenceWorkbooks ==
    {Workbook(("Assessments" :> <<AssessmentRow(<<"A", "1">>, <<"M", "1">>, NoneV),
                                  AssessmentRow(<<"A", "2">>, <<"M", "1">>, NoneV)>>)
              @@ ("Level 2 Facts" :> second)
              @@ ("Algorithms" :>
                     <<AlgorithmRow(<<"A", "L", "G", "_", "0", "0", "1">>, <<"A", "1">>,
                                    <<"ASSESSMENT">>, text)>> \o LaterAlgorithms(k))
              @@ BaseSheets) :
        second \in {<<>>, <<SecondSheetNode(<<"A", "1">>)>>,
                    <<SecondSheetNode(<<"A", "2">>)>>},
        text \in ReferenceTexts, k \in 0..(MaxRows - 1)}

InitReferences == NoValidator /\ session_data \in ReferenceWorkbooks

SpecReferences == InitReferences /\ [][Next]_vars

(***************************************************************************)
(* One validator instance validated more than once.  validate() takes no   *)
(* argument and resets nothing: a further call on the instance that has    *)
(* returned runs the passes again over the fields and the result the       *)
(* instance holds.                                                         *)
(***************************************************************************)
\* the instance has run validate() to its end
Validated == Len(result.categories) > 0

ValidateAgain ==
    /\ pc = "idle"
    /\ Validated
    /\ Len(returned) < MaxRuns
    /\ pc' = "catalog_integrity"
    /\ UNCHANGED <<session_data, validator, api_self, returned>>

NextInstance == Next \/ ValidateAgain

SpecInstance == InitExpressions /\ [][NextInstance]_vars

(***************************************************************************)
(* The row requests of the service (src/main.py) on the Modules table of   *)
(* the session, which starts empty.  A request is validated against the    *)
(* stored table and, when accepted, changes it; returned holds the         *)
(* response to the latest request.                                         *)
(***************************************************************************)
\* rows the table holds at most
MaxStored == 3

\* the rows a client sends: codes that collide up to case and blanks, a
\* code with a typographic apostrophe and its plain spelling, and no code
RequestedRows ==
    {ModuleRow(code, <<"N">>) :
        code \in {<<"M", "1">>, <<" ", "m", "1">>, <<"M", "2">>,
                  <<"M", "rsquo", "1">>, <<"M", "'", "1">>, NoneV}}

\* the response to a request: the HTTP status, the success flag, and the
\* validation result of a request that validates its row
Response(status, success, validation) ==
    [status |-> status, success |-> success, validation |-> validation]

\* the table without the rows at the 0-based indices
Dropped(df, indices) ==
    SelectSeq([i \in 1..Len(df) |-> [index |-> i - 1, row |-> df[i]]],
              LAMBDA x : x.index \notin indices)

drop(df, indices) == [i \in 1..Len(Dropped(df, indices)) |-> Dropped(df, indices)[i].row]

\* POST /api/sheets/{sheet_name}/rows
AddRow ==
    /\ pc = "idle"
    /\ Len(session_data["Modules"]) < MaxStored
    /\ \E row \in RequestedRows :
          LET df == session_data["Modules"]
              validation == validate_row_result(row, "Modules", df, FALSE, NoRow, NoRow)
          IN  IF ~validation.is_valid
              THEN /\ returned' = <<FieldCall("add_row", "Modules", [row_data |-> row],
                                              Response(200, FALSE, validation))>>
                   /\ UNCHANGED session_data
              ELSE /\ session_data' = [session_data EXCEPT !["Modules"] = Append(df, row)]
                   /\ returned' = <<FieldCall("add_row", "Modules", [row_data |-> row],
                                              Response(200, TRUE, validation))>>
    /\ UNCHANGED <<validator, api_self, pc>>

\* PUT /api/sheets/{sheet_name}/rows/{row_index}
UpdateRow ==
    /\ pc = "idle"
    /\ \E row \in RequestedRows : \E row_index \in 0..Len(session_data["Modules"]) :
          LET df == session_data["Modules"]
              args == [row_data |-> row, row_index |-> row_index]
              validation == validate_row_result(row, "Modules", df, TRUE, row_index, NoRow)
          IN  IF row_index >= Len(df)
              THEN /\ returned' = <<FieldCall("update_row", "Modules", args,
                                              Response(404, FALSE, NewResult))>>
                   /\ UNCHANGED session_data
              ELSE IF ~validation.is_valid
              THEN /\ returned' = <<FieldCall("update_row", "Modules", args,
                                              Response(200, FALSE, validation))>>
                   /\ UNCHANGED session_data
              ELSE /\ session_data' =
                          [session_data EXCEPT !["Modules"][row_index + 1] =
                              [col \in DOMAIN @ |->
                                  IF col \in DOMAIN row THEN row[col] ELSE @[col]]]
                   /\ returned' = <<FieldCall("update_row", "Modules", args,
                                              Response(200, TRUE, validation))>>
    /\ UNCHANGED <<validator, api_self, pc>>

\* DELETE /api/sheets/{sheet_name}/rows/{row_index}
DeleteRow ==
    /\ pc = "idle"
    /\ \E row_index \in 0..Len(session_data["Modules"]) :
          LET df == session_data["Modules"]
          IN  IF row_index >= Len(df)
              THEN /\ returned' = <<FieldCall("delete_row", "Modules",
                                              [row_index |-> row_index],
                                              Response(404, FALSE, NewResult))>>
                   /\ UNCHANGED session_data
              ELSE /\ session_data' =
                          [session_data EXCEPT !["Modules"] = drop(df, {row_index})]
                   /\ returned' = <<FieldCall("delete_row", "Modules",
                                              [row_index |-> row_index],
                                              Response(200, TRUE, NewResult))>>
    /\ UNCHANGED <<validator, api_self, pc>>

\* DELETE /api/sheets/{sheet_name}/rows: the indices out of range are
\* ignored
DeleteMultipleRows ==
    /\ pc = "idle"
    /\ \E indices \in SUBSET (0..MaxStored) :
          LET df == session_data["Modules"]
              valid_indices == {i \in indices : i < Len(df)}
          IN  /\ session_data' =
                     [session_data EXCEPT !["Modules"] = drop(df, valid_indices)]
              /\ returned' = <<FieldCall("delete_multiple_rows", "Modules",
                                         [indices |-> indices],
                                         Response(200, TRUE, NewResult))>>
    /\ UNCHANGED <<validator, api_self, pc>>

NextRows == AddRow \/ UpdateRow \/ DeleteRow \/ DeleteMultipleRows

SpecRows == InitEmpty /\ [][NextRows]_vars

(***************************************************************************)
(* Properties.  An entry of returned is one call of an entry point with    *)
(* its result; the issues of a result of the src/api validator are those   *)
(* of its categories.                                                      *)
(***************************************************************************)
IssuesOf(e) ==
    IF e.op = "api_validate_model"
    THEN Concat([c \in 1..Len(e.result.categories) |-> e.result.categories[c].issues])
    ELSE e.result.issues

Errors(issues) == SelectSeq(issues, LAMBDA i : i.severity = "error")

\* the key of a row as the validators compare it: trimmed and upper-cased
KeyOf(row, col) == Upper(get_str_value(row, col))

\* the rows of a sheet that carry a key
Keyed(df, col) ==
    {i \in 1..Len(df) : LET v == get_str_value(df[i], col)
                        IN  v # NULL_VALUE /\ ~is_comment(v)}

\* the first row of the sheet with the key
FirstWith(df, col, key) == SetMin({i \in Keyed(df, col) : KeyOf(df[i], col) = key})

\* the tables with a declared unique key
KeyedTables ==
    <<[sheet |-> "Modules", key |-> "moduleCode"],
      [sheet |-> "Assessments", key |-> "assessmentCode"],
      [sheet |-> "Findings", key |-> "findingCode"],
      [sheet |-> "Algorithms", key |-> "algorithmId"]>>

DuplicateTemplates ==
    {"Duplicate moduleCode", "Duplicate assessmentCode", "Duplicate findingCode",
     "Duplicate algorithmId", "Duplicate found"}

\* the sheet has two rows and they carry the same key
TwoRowsSameKey(sheet, key) ==
    LET df == session_data[sheet]
    IN  /\ Len(df) = 2
        /\ Keyed(df, key) = {1, 2}
        /\ KeyOf(df[1], key) = KeyOf(df[2], key)

\* the duplicate-key errors of a result for a table
DuplicateErrors(e, sheet) ==
    SelectSeq(IssuesOf(e), LAMBDA i : /\ i.sheet = sheet /\ i.severity = "error"
                                      /\ i.message[1] \in DuplicateTemplates)

\* C1: for each table with a unique key, two rows with the same key make
\* validate_sheet and the Level 3 build (validate_model) each report exactly
\* one duplicate-key error, on the second row: the build numbers the rows
\* from 0, validate_sheet by their Excel row.  The build of the Algorithms
\* table reports none.
C1_OneDuplicateErrorOnSecondRow ==
    \A k \in 1..Len(returned) : \A t \in 1..Len(KeyedTables) :
        LET e == returned[k]
            table == KeyedTables[t]
        IN  /\ \/ e.op = "validate_model"
               \/ e.op = "validate_sheet" /\ e.sheet = table.sheet
            /\ TwoRowsSameKey(table.sheet, table.key)
            => /\ Len(DuplicateErrors(e, table.sheet)) = 1
               /\ DuplicateErrors(e, table.sheet)[1].row
                      = IF e.op = "validate_model" THEN 1 ELSE 3

\* validate() of the FullModelValidator is under way
Constructed ==
    pc \in {"catalog_integrity", "assessment_catalog", "durations", "enumerations",
            "assessments", "findings_relationships", "algorithms", "return"}

\* the map has one entry per key of the sheet, made from the first row with
\* the key: its row number and the fields named
FirstSeenEntries(map, df, col, fields) ==
    /\ {map[j].key : j \in 1..Len(map)} = {KeyOf(df[i], col) : i \in Keyed(df, col)}
    /\ \A j1, j2 \in 1..Len(map) : map[j1].key = map[j2].key => j1 = j2
    /\ \A j \in 1..Len(map) :
          LET i == FirstWith(df, col, map[j].key)
          IN  /\ map[j].row = i - 1
              /\ \A f \in fields : map[j][f] = get_str_value(df[i], f)

\* the build has recorded a duplicate for each later row with a key, and
\* for no other row
LaterRowsRecorded(sheet, df, col) ==
    LET recorded == SelectSeq(build_issues,
                        LAMBDA i : /\ i.sheet = sheet /\ i.severity = "error"
                                   /\ i.message[1] \in DuplicateTemplates)
        later == {i \in Keyed(df, col) : i # FirstWith(df, col, KeyOf(df[i], col))}
    IN  /\ Len(recorded) = Cardinality(later)
        /\ {<<recorded[k].row, recorded[k].message[2]>> : k \in 1..Len(recorded)}
               = {<<i - 1, KeyOf(df[i], col)>> : i \in later}

\* the assessments whose moduleCode the catalog pass reports as unresolved
UnresolvedModules(issues) ==
    {<<issues[k].row, issues[k].message[2]>> :
        k \in {k \in 1..Len(issues) :
                  issues[k].message[1] = "moduleCode not found in Modules catalog"}}

\* C10: once the validator is built, the entry of each key in the module,
\* assessment and finding maps is made from the first row with that key
\* (trimmed, upper-cased); each later row with the key is recorded as a
\* duplicate and leaves the entry as it was; the catalog pass resolves the
\* moduleCode of the first occurrence only.
C10_FirstSeenWins ==
    Constructed =>
        /\ FirstSeenEntries(modules, session_data["Modules"], "moduleCode", {"name"})
        /\ FirstSeenEntries(assessments, session_data["Assessments"],
                            "assessmentCode", {"name"})
        /\ FirstSeenEntries(findings, session_data["Findings"], "findingCode",
                            {"name"})
        /\ \A j \in 1..Len(assessments) :
              assessments[j].moduleCode
                  = KeyOf(session_data["Assessments"][assessments[j].row + 1],
                          "moduleCode")
        /\ LaterRowsRecorded("Modules", session_data["Modules"], "moduleCode")
        /\ LaterRowsRecorded("Assessments", session_data["Assessments"],
                             "assessmentCode")
        /\ LaterRowsRecorded("Findings", session_data["Findings"], "findingCode")
        /\ pc = "return" =>
              UnresolvedModules(result.issues)
                  = {<<i - 1, KeyOf(session_data["Assessments"][i], "moduleCode")>> :
                        i \in {i \in Keyed(session_data["Assessments"], "assessmentCode") :
                                  LET df == session_data["Assessments"]
                                  IN  /\ i = FirstWith(df, "assessmentCode",
                                                       KeyOf(df[i], "assessmentCode"))
                                      /\ ~HasKey(modules, KeyOf(df[i], "moduleCode"))}}

\* validate() has run to its end on an Assessments sheet whose two rows carry
\* the same key, the first with a moduleCode the catalog does not hold and
\* the second with one it holds
C10_DuplicateAssessmentBuilt ==
    /\ pc = "return"
    /\ TwoRowsSameKey("Assessments", "assessmentCode")
    /\ KeyOf(session_data["Assessments"][1], "moduleCode") = <<"M", "9">>
    /\ KeyOf(session_data["Assessments"][2], "moduleCode") = <<"M", "1">>
    /\ Len(assessments) = 1
    /\ UnresolvedModules(result.issues) = {<<0, <<"M", "9">>>>}

\* the errors a result holds on field range of the row at 1-based index i of
\* a sheet: validate_sheet numbers rows by Excel row, the src/api validator
\* from 0
RangeErrors(e, sheet, i) ==
    SelectSeq(IssuesOf(e),
              LAMBDA x : /\ x.sheet = sheet /\ x.field = "range" /\ x.severity = "error"
                         /\ x.row = IF e.op = "validate_sheet" THEN i + 1 ELSE i - 1)

RangeNotAllowed == {"range not allowed for", "Range not allowed for dataType"}

\* the range rule for a row, as a condition on its range errors
RangeRule(row, errors) ==
    LET data_type == Upper(get_str_value(row, "dataType"))
        range == get_str_value(row, "range")
    IN  IF data_type = <<"INTEGER">>
        THEN IF range # NULL_VALUE /\ re_match("range", range)
             THEN errors = <<>>
             ELSE Len(errors) = 1
        ELSE range # NULL_VALUE =>
                Len(errors) = 1 /\ errors[1].message[1] \in RangeNotAllowed

\* C2: for every row of a Level Facts sheet, validate_sheet and the
\* src/api validator report no range error for INTEGER with a range
\* digits-digits, exactly one error on field range for INTEGER with a range
\* absent or of another form, and exactly one "range not allowed" error for
\* another dataType with a range present.
C2_RangeRuleOnEveryFactRow ==
    \A k \in 1..Len(returned) :
        LET e == returned[k]
            df == session_data["Level 1 Facts"]
        IN  \/ e.op = "validate_sheet" /\ e.sheet = "Level 1 Facts"
            \/ e.op = "api_validate_model"
            => \A i \in 1..Len(df) :
                  RangeRule(df[i], RangeErrors(e, "Level 1 Facts", i))

\* the keys of the Assessments catalog of the workbook
CatalogCodes(sd) ==
    {KeyOf(sd["Assessments"][i], "assessmentCode") :
        i \in Keyed(sd["Assessments"], "assessmentCode")}

\* the assessment codes of an Algorithms row with event ASSESSMENT that the
\* catalog does not hold, in the order of the cell
UnresolvedCodes(sd, row) ==
    LET cell == Upper(get_str_value(row, "assessmentCode"))
        codes == SplitBy(cell, ",")
    IN  IF Upper(get_str_value(row, "event")) = <<"ASSESSMENT">> /\ cell # NULL_VALUE
        THEN SelectSeq([k \in 1..Len(codes) |-> Upper(Strip(codes[k]))],
                       LAMBDA c : c \notin CatalogCodes(sd))
        ELSE <<>>

\* <<0-based row, code>> for each unresolved code of the Algorithms sheet
Typos(sd) ==
    LET df == sd["Algorithms"]
    IN  Concat([i \in 1..Len(df) |->
            [k \in 1..Len(UnresolvedCodes(sd, df[i])) |->
                <<i - 1, UnresolvedCodes(sd, df[i])[k]>>]])

\* the workbook with each such cell replaced by a code of the catalog
Repaired(sd) ==
    [sd EXCEPT !["Algorithms"] =
        [i \in 1..Len(@) |->
            IF UnresolvedCodes(sd, @[i]) # <<>>
            THEN [@[i] EXCEPT !.assessmentCode =
                      CHOOSE c \in CatalogCodes(sd) : TRUE]
            ELSE @[i]]]

\* the errors are one "Invalid assessmentCode" per unresolved code, each on
\* the row of its cell, and nothing else
OnlyTypoErrors(errors, typos) ==
    /\ Len(errors) = Len(typos)
    /\ \A k \in 1..Len(errors) :
          /\ errors[k].sheet = "Algorithms" /\ errors[k].field = "assessmentCode"
          /\ errors[k].message[1] = "Invalid assessmentCode"
          /\ errors[k].row = typos[k][1] /\ errors[k].message[2] = typos[k][2]

\* C3: when Algorithms rows with event ASSESSMENT name assessment codes the
\* catalog does not hold and the workbook is valid once those cells are
\* repaired, validate_model reports exactly one "Invalid assessmentCode"
\* error per unresolved code, on the row of the cell, and no other error:
\* one typo gives exactly one error.
C3_OneErrorPerUnresolvedCode ==
    \A k \in 1..Len(returned) :
        returned[k].op = "validate_model" =>
            \/ Typos(session_data) = <<>>
            \/ OnlyTypoErrors(Errors(returned[k].result.issues), Typos(session_data))
            \/ Errors(validate_model(Repaired(session_data)).issues) # <<>>

\* validate_model has returned on a workbook valid but for one unresolved
\* assessment code, with that one error
C3_OneTypoOneError ==
    \E k \in 1..Len(returned) :
        /\ returned[k].op = "validate_model"
        /\ Len(Typos(session_data)) = 1
        /\ Len(Errors(returned[k].result.issues)) = 1
        /\ Errors(returned[k].result.issues)[1].message
               = <<"Invalid assessmentCode", <<"A", "9">>>>
        /\ Errors(validate_model(Repaired(session_data)).issues) = <<>>

\* the issues a result holds on the expression of the Algorithms row at
\* 1-based index i: the Level 3 validators number rows from 0
ExpressionIssues(e, i) ==
    SelectSeq(IssuesOf(e), LAMBDA x : /\ x.sheet = "Algorithms" /\ x.row = i - 1
                                      /\ x.field = "algorithm")

\* the Level Facts sheets hold a fact with the id and dataType ENUMERATION
EnumerationFact(sd, id) ==
    \E n \in 1..Len(FactSheets) : \E i \in 1..Len(sd[FactSheets[n]]) :
        /\ KeyOf(sd[FactSheets[n]][i], "factId") = id
        /\ KeyOf(sd[FactSheets[n]][i], "dataType") = <<"ENUMERATION">>

OperatorMisuse == "Comparison operators cannot be used with fact() expressions"

\* the number of entries of self.algorithms an Algorithms row makes: one per
\* assessment code of an ASSESSMENT row, else one
LogicalRules(row) ==
    IF /\ KeyOf(row, "event") = <<"ASSESSMENT">>
       /\ KeyOf(row, "assessmentCode") # NULL_VALUE
    THEN Len(SplitBy(KeyOf(row, "assessmentCode"), ","))
    ELSE 1

\* validate_model has checked F1 and F2 as ENUMERATION facts and the row has
\* an event of the catalog
EnumerationFactsChecked(e, row) ==
    /\ e.op = "validate_model"
    /\ EnumerationFact(session_data, <<"F", "1">>)
    /\ EnumerationFact(session_data, <<"F", "2">>)
    /\ KeyOf(row, "event") \in VALID_ALGORITHM_EVENTS

DurationPassDone ==
    pc \in {"enumerations", "assessments", "findings_relationships", "algorithms",
            "return"}

\* the info issues of the result on the estimatedDuration of an Assessments row
DurationInfos(row) ==
    SelectSeq(result.issues,
              LAMBDA x : /\ x.sheet = "Assessments" /\ x.row = row
                         /\ x.field = "estimatedDuration" /\ x.severity = "info")

\* the nodes the build has grouped under an assessment
NodesOf(assessment_id) ==
    IF HasKey(grouped_nodes, assessment_id)
    THEN Lookup(grouped_nodes, assessment_id).nodes
    ELSE <<>>

\* the estimatedDuration cell of the row an assessment entry was built from
SpecifiedDuration(a) ==
    get_str_value(session_data["Assessments"][a.row + 1], "estimatedDuration")

\* an assessment entry whose row gives an estimatedDuration
Explicit(a) ==
    SpecifiedDuration(a) # NULL_VALUE /\ ~is_empty(SpecifiedDuration(a))

\* an explicit estimatedDuration is kept and raises no info issue
ExplicitKept(a) ==
    /\ a.estimatedDuration = SpecifiedDuration(a)
    /\ DurationInfos(a.row) = <<>>

\* a missing estimatedDuration is calculated from the nodes, with one info issue
MissingCalculated(a) ==
    /\ a.estimatedDuration = duration_str(NodesOf(a.key))
    /\ Len(DurationInfos(a.row)) = 1
    /\ DurationInfos(a.row)[1].message
          = <<"Calculated duration", <<a.key, duration_str(NodesOf(a.key))>>>>

\* C4: once the duration pass has run, in the first run as in the second,
\* every assessment of the catalog with an explicit estimatedDuration keeps
\* it and has no info issue, and every assessment of the catalog without one
\* has exactly one info issue and the duration summed over its nodes.
C4_ExplicitKeptMissingCalculated ==
    DurationPassDone =>
        \A j \in 1..Len(assessments) :
            IF Explicit(assessments[j])
            THEN ExplicitKept(assessments[j])
            ELSE MissingCalculated(assessments[j])

MissingMapping == "missing derivedBooleanValue"

\* the missing-boolean-mapping errors of an entry on the expression of row i
MappingErrors(e, i) ==
    SelectSeq(ExpressionIssues(e, i),
              LAMBDA x : x.severity = "error" /\ x.message[1] = MissingMapping)

\* every value of the Enumerations sheet has a boolean mapping
AllMapped(sd) ==
    \A k \in 1..Len(sd["Enumerations"]) : ~IsNone(sd["Enumerations"][k].derivedValue)

\* a model validator has checked a row with a valid event whose expression
\* is groups('G1').response(True) >= 2
GroupChecked(e, row) ==
    /\ e.op \in {"validate_model", "api_validate_model"}
    /\ row.algorithm = GroupResponse
    /\ KeyOf(row, "event") \in VALID_ALGORITHM_EVENTS

\* C6: a row whose expression references factGroup G1 gets no issue on the
\* expression when every enumeration value of the members of G1 has a
\* boolean mapping, and exactly one missing-boolean-mapping error when a
\* value lacks one.
C6_OneMappingErrorIffValueUnmapped ==
    \A k \in 1..Len(returned) : \A i \in 1..Len(session_data["Algorithms"]) :
        GroupChecked(returned[k], session_data["Algorithms"][i])
        => IF AllMapped(session_data)
           THEN ExpressionIssues(returned[k], i) = <<>>
           ELSE Len(MappingErrors(returned[k], i)) = 1

\* the validity flag of an entry: is_valid, or overall_passed of src/api
ValidOf(e) ==
    IF e.op = "api_validate_model" THEN e.result.overall_passed ELSE e.result.is_valid

Warnings(issues) == SelectSeq(issues, LAMBDA i : i.severity = "warning")

\* every sheet of the session is present and has no row
EmptyModel == \A n \in SheetNames : n \in DOMAIN session_data /\ session_data[n] = <<>>

\* C7: on the empty model every entry point, validate_sheet for each table
\* and validate_model, returns a valid result with no error and no warning.
C7_EmptyModelValidWithoutWarnings ==
    EmptyModel =>
        \A k \in 1..Len(returned) :
            /\ ValidOf(returned[k])
            /\ Errors(IssuesOf(returned[k])) = <<>>
            /\ Warnings(IssuesOf(returned[k])) = <<>>

\* two entries are calls of the same entry point with the same arguments
SameCall(a, b) ==
    a.op = b.op /\ a.sheet = b.sheet /\ a.enumerations = b.enumerations

IssueSet(e) == {IssuesOf(e)[i] : i \in 1..Len(IssuesOf(e))}

\* C8: two calls of the same entry point over the unchanged workbook return
\* the same set of issues and the same validity; validate_model and
\* validate_sheet of src/validation return the same result altogether,
\* issue for issue in the same order and category for category.
C8_SameTablesSameResult ==
    \A k1 \in 1..Len(returned) : \A k2 \in 1..Len(returned) :
        SameCall(returned[k1], returned[k2])
        => /\ IssueSet(returned[k1]) = IssueSet(returned[k2])
           /\ ValidOf(returned[k1]) = ValidOf(returned[k2])
           /\ returned[k1].op # "api_validate_model"
                 => returned[k1].result = returned[k2].result

\* validate_model has run twice and has reported errors
C8_TwoRunsWithErrors ==
    /\ Len(returned) = 2
    /\ returned[1].op = "validate_model" /\ returned[2].op = "validate_model"
    /\ Errors(IssuesOf(returned[1])) # <<>>
    /\ returned[1].result = returned[2].result

\* the entry reports the unknown fact of the expression of row i
UnknownFactReported(e, i) ==
    \E j \in 1..Len(ExpressionIssues(e, i)) :
        /\ ExpressionIssues(e, i)[j].severity = "error"
        /\ ExpressionIssues(e, i)[j].message
              = <<"Invalid factId", <<"N", "O", "P", "E">>>>

\* C9: a violation recorded for a row stops neither the remaining checks of
\* the row nor those of later rows: every Algorithms row whose expression
\* is fact('NOPE') == True has the unknown fact reported by validate_model,
\* whatever its event and assessmentCode and whatever the rows before it.
C9_ExpressionCheckedOnEveryRow ==
    \A k \in 1..Len(returned) : \A i \in 1..Len(session_data["Algorithms"]) :
        /\ returned[k].op = "validate_model"
        /\ session_data["Algorithms"][i].algorithm = UnknownFact
        => UnknownFactReported(returned[k], i)

\* the issues of a call of a field or row entry point
FieldIssues(e) ==
    IF e.op \in {"api_validate_field", "api_validate_row"}
    THEN e.result.errors \o e.result.warnings
    ELSE e.result.issues

FieldCalls == {"validate_field", "api_validate_field"}

\* C11: validate_field on an empty value, None or a blank string, returns
\* exactly one error, "is required", and an invalid result when the field is
\* required, whatever its type, pattern and the existing values; it returns
\* a valid result without issues when the field is optional.
C11_RequirednessShortCircuits ==
    \A k \in 1..Len(returned) :
        /\ returned[k].op \in FieldCalls
        /\ field_empty(returned[k].args.value)
        => IF returned[k].args.column_def.required
           THEN /\ Len(FieldIssues(returned[k])) = 1
                /\ FieldIssues(returned[k])[1].severity = "error"
                /\ FieldIssues(returned[k])[1].message[1] = "is required"
                /\ ~returned[k].result.is_valid
           ELSE /\ FieldIssues(returned[k]) = <<>>
                /\ returned[k].result.is_valid

\* a required field with a pattern was submitted blank and an optional
\* field was submitted empty, both with existing values
C11_EmptyRequiredAndOptional ==
    /\ Len(returned) = 2
    /\ returned[1].op = "validate_field" /\ returned[2].op = "validate_field"
    /\ returned[1].args.column_def.name = "moduleCode"
    /\ returned[1].args.value = <<" ">>
    /\ Len(returned[1].args.existing_values) = 2
    /\ Len(returned[1].result.issues) = 1
    /\ returned[2].args.column_def.name = "description"
    /\ returned[2].args.value = NoneV
    /\ returned[2].args.existing_values # <<>>
    /\ returned[2].result = NewResult

RowCalls == {"validate_row", "api_validate_row"}

\* the value as the uniqueness check compares it: trimmed, in upper case
Folded(v) == Upper(Strip(PyStr(v)))

\* the 1-based indices of the stored rows other than the edited one
OtherRows(args) ==
    {j \in 1..Len(args.existing_df) : ~(args.is_edit /\ args.edit_index = j - 1)}

\* some other stored row holds the submitted moduleCode
HeldByOtherRow(args) ==
    \E j \in OtherRows(args) :
        /\ ~IsNone(args.existing_df[j].moduleCode)
        /\ Folded(args.existing_df[j].moduleCode) = Folded(args.row_data.moduleCode)

UniquenessErrors(e) ==
    SelectSeq(FieldIssues(e),
              LAMBDA x : x.severity = "error" /\ x.message[1] = "already exists")

\* C12: validate_row on a row with a moduleCode reports a uniqueness error
\* exactly when some other row of the existing table holds the code, up to
\* case and surrounding blanks; the edited row itself is not another row.
C12_UniquenessErrorIffHeldByOtherRow ==
    \A k \in 1..Len(returned) :
        /\ returned[k].op \in RowCalls
        /\ ~field_empty(returned[k].args.row_data.moduleCode)
        => Len(UniquenessErrors(returned[k]))
              = IF HeldByOtherRow(returned[k].args) THEN 1 ELSE 0

\* no issue of the list is an error; the counters of a category agree with
\* its issues
NoErrorIn(issues) == \A i \in 1..Len(issues) : issues[i].severity # "error"

CategoryRolledUp(category) ==
    /\ category.passed <=> category.error_count = 0
    /\ category.error_count + category.warning_count + category.info_count
           = Len(category.issues)

\* C13: after any sequence of add_issue, merge and add_category on a result
\* that started valid and empty, is_valid holds iff no issue of the result is
\* an error (so warnings and info never invalidate), and every category of
\* the result has passed iff its error_count is 0, its three counts adding up
\* to the number of its issues.
C13_ContainersRollUp ==
    /\ result.is_valid <=> NoErrorIn(result.issues)
    /\ \A c \in 1..Len(result.categories) : CategoryRolledUp(result.categories[c])

\* a valid result that holds warnings and info, a passed category with a
\* warning among them
C13_ValidWithWarnings ==
    /\ result.is_valid
    /\ \E i, j \in 1..Len(result.issues) :
           result.issues[i].severity = "warning" /\ result.issues[j].severity = "info"
    /\ \E c \in 1..Len(result.categories) :
           /\ result.categories[c].passed
           /\ result.categories[c].warning_count > 0
           /\ Len(result.categories[c].issues) < Len(result.issues)

\* the passes of validate() and the positions before each of them
PASSES ==
    <<"Catalog Integrity", "Assessment Catalog", "Duration Calculation", "Enumerations",
      "Assessments", "Findings Relationships", "Algorithms">>

PassPositions ==
    <<"catalog_integrity", "assessment_catalog", "durations", "enumerations",
      "assessments", "findings_relationships", "algorithms", "return">>

InPassOrder(r, n) ==
    /\ [c \in 1..Len(r.categories) |-> r.categories[c].name] = SubSeq(PASSES, 1, n)
    /\ r.issues = Concat([c \in 1..Len(r.categories) |-> r.categories[c].issues])

PassesDoneInOrder ==
    /\ \A k \in 1..Len(PassPositions) : pc = PassPositions[k] => InPassOrder(result, k - 1)
    /\ \A i \in 1..Len(returned) :
           returned[i].op = "validate_model" => InPassOrder(returned[i].result, Len(PASSES))

NextPassFollows ==
    \A k \in 1..Len(PASSES) : pc = PassPositions[k] => pc' = PassPositions[k + 1]

\* C14: validate_model runs the passes Catalog Integrity, Assessment Catalog,
\* Duration Calculation, Enumerations, Assessments, Findings Relationships,
\* Algorithms in this order, each once: a pass is always followed by the next
\* one, whatever the result holds; at every position the categories of the
\* result are those of the passes already run, one each, and the issues of
\* the result are the issues of these categories in pass order; a returned
\* result has all seven.
C14_PassesInOrderOnceEach == []PassesDoneInOrder /\ [][NextPassFollows]_vars

\* a returned result whose first category failed and whose later categories
\* hold issues too
C14_LaterPassesAfterErrors ==
    \E i \in 1..Len(returned) :
        /\ returned[i].op = "validate_model"
        /\ Len(returned[i].result.categories) = Len(PASSES)
        /\ ~returned[i].result.categories[1].passed
        /\ \E c \in 2..Len(PASSES) : returned[i].result.categories[c].issues # <<>>

\* a step leaves the tables alone; a result is the one of the tables alone
TablesUntouched == session_data' = session_data

ResultOfTablesAlone(e) ==
    CASE e.op = "validate_model" -> e.result = validate_model(session_data)
      [] e.op = "validate_sheet" ->
            e.result = validate_sheet(e.sheet, session_data[e.sheet],
                           IF e.enumerations THEN Df(Sheet(session_data, "Enumerations"))
                           ELSE NoDf)
      [] OTHER -> TRUE

NothingKept == \A i \in 1..Len(returned) : ResultOfTablesAlone(returned[i])

\* C15: no step of validate_sheet or of validate_model (which run
\* validate_row and validate_field on the rows) changes a table of the
\* caller, the estimatedDuration the duration pass calculates going to the
\* validator's own assessments only; and nothing is kept between calls: the
\* result of every validate_model call, the first as the second, is the one
\* a new validator gives on the tables, and every validate_sheet result the
\* one of the sheet alone.
C15_InputsUntouchedNoStateKept == [][TablesUntouched]_vars /\ []NothingKept

\* validate_model has returned twice, a validate_sheet call in between or
\* not, and the validator holds a calculated estimatedDuration for an
\* assessment whose row gives none
C15_CalculatedDurationBesideEmptyCell ==
    /\ Len(returned) = MaxRuns
    /\ \A i \in 1..Len(returned) : returned[i].op = "validate_model"
    /\ \E j \in 1..Len(assessments) :
           /\ ~Explicit(assessments[j])
           /\ assessments[j].estimatedDuration # SpecifiedDuration(assessments[j])
           /\ ~is_empty(assessments[j].estimatedDuration)

\* the rows of the Level 1 Facts sheet and the results that cover them: a
\* model validation, or the table validation of that sheet
NodeRows == session_data["Level 1 Facts"]

CoversNodes(e) == e.op = "validate_sheet" => e.sheet = "Level 1 Facts"

\* the issues of a result on a field of the node row at 1-based index i:
\* validate_sheet numbers rows as the spreadsheet does, the model validators
\* from 0
NodeIssues(e, i, field) ==
    SelectSeq(IssuesOf(e),
              LAMBDA x : /\ x.sheet = "Level 1 Facts" /\ x.field = field
                         /\ x.row = (IF e.op = "validate_sheet" THEN i + 1 ELSE i - 1))

\* the elements of the target of a row
TargetElements(row) ==
    IF is_empty(row.target) THEN <<>> ELSE target_list(Upper(Strip(row.target)))

\* the "not found" message of each validator for the element t
NotFoundMessage(x, t) ==
    \/ x.message[1] = "target not found" /\ x.message[2][3] = t
    \/ x.message[1] = "target not found in assessment" /\ x.message[2] = t
    \/ x.message[1] = "Target not found in sheet" /\ x.message[2][1] = t

\* the "not found" errors of a result for an element of the target of row i
NotFoundErrors(e, i, t) ==
    SelectSeq(NodeIssues(e, i, "target"),
              LAMBDA x : x.severity = "error" /\ NotFoundMessage(x, t))

\* the element is the nodeId of a row, earlier or later, of the assessment
\* of row i
ResolvesInAssessment(i, t) ==
    \E r \in 1..Len(NodeRows) :
        /\ KeyOf(NodeRows[r], "assessmentId") = KeyOf(NodeRows[i], "assessmentId")
        /\ KeyOf(NodeRows[r], "nodeId") = t

\* C16: in table validation and in model validation, an element of the
\* target of a Fact row has a "target not found" error iff it is not EXIT and
\* not the nodeId of any row of the table with the same assessmentId.
C16_NotFoundIffUnresolvedInAssessment ==
    \A n \in 1..Len(returned) : CoversNodes(returned[n]) =>
        \A i \in 1..Len(NodeRows) :
            \A k \in 1..Len(TargetElements(NodeRows[i])) :
                LET t == TargetElements(NodeRows[i])[k]
                IN  (NotFoundErrors(returned[n], i, t) # <<>>)
                        <=> (t # <<"EXIT">> /\ ~ResolvesInAssessment(i, t))

\* the cardinality errors of a result on the target of the node row i
CardinalityTemplates ==
    {"only single target allowed for", "Only a single target allowed for",
     "Target must be length 1 or same length as enumeration"}

CardinalityErrors(e, i) ==
    SelectSeq(NodeIssues(e, i, "target"),
              LAMBDA x : x.severity = "error" /\ x.message[1] \in CardinalityTemplates)

\* the number of values the Enumerations sheet gives the enumeration type of
\* a row
EnumerationValueCount(row) ==
    Cardinality({r \in 1..Len(session_data["Enumerations"]) :
                    KeyOf(session_data["Enumerations"][r], "enumerationType")
                        = KeyOf(row, "enumerationType")})

TargetCountAllowed(row) ==
    IF KeyOf(row, "dataType") = <<"ENUMERATION">>
    THEN Len(TargetElements(row)) \in {1, EnumerationValueCount(row)}
    ELSE Len(TargetElements(row)) = 1

\* C17: in table validation and in model validation, a row with a target
\* whose dataType is not ENUMERATION and that has more than one target
\* element has a cardinality error, and an ENUMERATION row has one unless it
\* has exactly one element or as many as its enumeration type has values.
C17_CardinalityErrorUnlessCountAllowed ==
    \A n \in 1..Len(returned) : CoversNodes(returned[n]) =>
        \A i \in 1..Len(NodeRows) :
            TargetElements(NodeRows[i]) # <<>> =>
                (CardinalityErrors(returned[n], i) # <<>> <=> ~TargetCountAllowed(NodeRows[i]))

\* the errors of a result on the target field of the node row i
TargetErrors(e, i) ==
    SelectSeq(NodeIssues(e, i, "target"), LAMBDA x : x.severity = "error")

\* C18: in table validation and in model validation, every Fact row whose
\* target is empty has an error on the field target.
C18_EmptyTargetIsAnError ==
    \A n \in 1..Len(returned) : CoversNodes(returned[n]) =>
        \A i \in 1..Len(NodeRows) :
            is_empty(NodeRows[i].target) => TargetErrors(returned[n], i) # <<>>

\* the Level Facts sheets that hold a Fact row of the assessment
SheetsOf(a) ==
    {n \in 1..Len(FactSheets) :
        \E i \in 1..Len(session_data[FactSheets[n]]) :
            KeyOf(session_data[FactSheets[n]][i], "assessmentId") = a}

\* the assessments of the Fact rows
AssessmentsOfNodes ==
    UNION {{KeyOf(session_data[FactSheets[n]][i], "assessmentId") :
               i \in 1..Len(session_data[FactSheets[n]])} : n \in 1..Len(FactSheets)}

MultipleSheetsErrors(issues, a) ==
    SelectSeq(issues,
              LAMBDA x : /\ x.severity = "error"
                         /\ x.message = <<"assessmentId found on multiple sheets", a>>)

CatalogIntegrityIssues(r) ==
    Concat([c \in 1..Len(r.categories) |->
               IF r.categories[c].name = "Catalog Integrity"
               THEN r.categories[c].issues ELSE <<>>])

\* C19: in every result of validate_model, an assessment with Fact rows on
\* two or more Level Facts sheets has exactly one "found on multiple sheets"
\* error, an assessment with all its Fact rows on one sheet has none, and the
\* error is an issue of the Catalog Integrity category.
C19_OneMultipleSheetsErrorPerAssessment ==
    \A n \in 1..Len(returned) : returned[n].op = "validate_model" =>
        \A a \in AssessmentsOfNodes :
            /\ Len(MultipleSheetsErrors(returned[n].result.issues, a))
                   = (IF Cardinality(SheetsOf(a)) >= 2 THEN 1 ELSE 0)
            /\ MultipleSheetsErrors(CatalogIntegrityIssues(returned[n].result), a)
                   = MultipleSheetsErrors(returned[n].result.issues, a)

\* a result for an assessment with three rows on two further sheets beside
\* its first, and another assessment on one sheet
C19_ThreeSheetsOneError ==
    \E n \in 1..Len(returned) :
        /\ returned[n].op = "validate_model"
        /\ Cardinality(SheetsOf(<<"A", "1">>)) = 3
        /\ Len(session_data["Level 2 Facts"]) = 2
        /\ Cardinality(SheetsOf(<<"A", "2">>)) = 1
        /\ Len(MultipleSheetsErrors(returned[n].result.issues, <<"A", "1">>)) = 1

\* the duplicate errors of a result on the nodeId or the factId of row i
NodeDuplicateTemplates ==
    {"duplicate nodeId found", "Duplicate nodeId within assessment",
     "duplicate factId found", "Duplicate factId within assessment"}

NodeDuplicateErrors(e, i, field) ==
    SelectSeq(NodeIssues(e, i, field),
              LAMBDA x : x.severity = "error" /\ x.message[1] \in NodeDuplicateTemplates)

\* an earlier row of the same assessment has the identifier of row i
RepeatsEarlier(i, field) ==
    /\ ~is_empty(NodeRows[i][field])
    /\ \E j \in 1..(i - 1) :
           /\ KeyOf(NodeRows[j], "assessmentId") = KeyOf(NodeRows[i], "assessmentId")
           /\ KeyOf(NodeRows[j], field) = KeyOf(NodeRows[i], field)

\* C20: in table validation and in model validation, a Fact row has exactly
\* one duplicate error on nodeId when an earlier row of the same assessment
\* has its nodeId, and exactly one on factId when an earlier row of the same
\* assessment has its factId, which is not empty; otherwise, as for the same
\* identifier under another assessment, it has none.
C20_OneDuplicateErrorWithinAssessment ==
    \A n \in 1..Len(returned) : CoversNodes(returned[n]) =>
        \A i \in 1..Len(NodeRows) : \A field \in {"nodeId", "factId"} :
            Len(NodeDuplicateErrors(returned[n], i, field))
                = (IF RepeatsEarlier(i, field) THEN 1 ELSE 0)

\* the duplicate-value errors of a result on the Enumerations row at 1-based
\* index i
ValueDuplicateErrors(e, i) ==
    SelectSeq(IssuesOf(e),
              LAMBDA x : /\ x.sheet = "Enumerations" /\ x.field = "value"
                         /\ x.severity = "error"
                         /\ x.row = (IF e.op = "validate_sheet" THEN i + 1 ELSE i - 1)
                         /\ x.message[1] \in {"enumerationType - duplicate value",
                                              "Duplicate value in enumerationType"})

\* an earlier row gives the enumeration type of row i the value of row i
ValueRepeatsEarlier(i) ==
    \E j \in 1..(i - 1) :
        /\ get_str_value(session_data["Enumerations"][j], "enumerationType")
               = get_str_value(session_data["Enumerations"][i], "enumerationType")
        /\ get_str_value(session_data["Enumerations"][j], "value")
               = get_str_value(session_data["Enumerations"][i], "value")

\* C21: in validate_sheet on the Enumerations table and in model validation,
\* an Enumerations row has exactly one duplicate-value error when an earlier
\* row gives its enumerationType the same value, and none otherwise, as when
\* the value repeats under another enumerationType.
C21_OneDuplicateValueErrorWithinType ==
    \A n \in 1..Len(returned) :
        (returned[n].op = "validate_sheet" => returned[n].sheet = "Enumerations") =>
            \A i \in 1..Len(session_data["Enumerations"]) :
                Len(ValueDuplicateErrors(returned[n], i))
                    = (IF ValueRepeatsEarlier(i) THEN 1 ELSE 0)

\* the Enumerations sheet defines the enumeration type of the row
TypeDefined(row) ==
    \E r \in 1..Len(session_data["Enumerations"]) :
        get_str_value(session_data["Enumerations"][r], "enumerationType")
            = get_str_value(row, "enumerationType")

\* the enumerationType of a row does not go with its dataType: missing or
\* undefined on an ENUMERATION node, present on another node
TypeMisused(row) ==
    IF KeyOf(row, "dataType") = <<"ENUMERATION">>
    THEN is_empty(row.enumerationType) \/ ~TypeDefined(row)
    ELSE ~is_empty(row.enumerationType)

\* the results that can tell: a model validation, or the table validation
\* of the sheet that is given the Enumerations sheet
CoversTypes(e) == e.op = "validate_sheet" => (e.sheet = "Level 1 Facts" /\ e.enumerations)

\* C22: a Fact row whose enumerationType does not go with its dataType (an
\* ENUMERATION node without a type or with a type the Enumerations table
\* does not define, a node of another dataType with a type) has an error on
\* the field enumerationType.
C22_TypeErrorWhenMisused ==
    \A n \in 1..Len(returned) : CoversTypes(returned[n]) =>
        \A i \in 1..Len(NodeRows) :
            TypeMisused(NodeRows[i]) =>
                \E k \in 1..Len(NodeIssues(returned[n], i, "enumerationType")) :
                    NodeIssues(returned[n], i, "enumerationType")[k].severity = "error"

\* the results of the validators that rule on the factId of a node: table
\* validation of the Fact sheet and the src/api model validator
RulesOnFactId(e) ==
    \/ e.op = "validate_sheet" /\ e.sheet = "Level 1 Facts"
    \/ e.op = "api_validate_model"

\* C23: a STATEMENT node with a factId has exactly one error on the field
\* factId; a node of dataType ENUMERATION, INTEGER or CONVERSATION without a
\* factId has exactly one warning and no error on the field factId.
C23_FactIdForbiddenOrRecommended ==
    \A n \in 1..Len(returned) : RulesOnFactId(returned[n]) =>
        \A i \in 1..Len(NodeRows) :
            LET issues == NodeIssues(returned[n], i, "factId")
                data_type == KeyOf(NodeRows[i], "dataType")
            IN  /\ (data_type = <<"STATEMENT">> /\ ~is_empty(NodeRows[i].factId))
                    => Len(Errors(issues)) = 1
                /\ (data_type \in {<<"ENUMERATION">>, <<"INTEGER">>, <<"CONVERSATION">>}
                    /\ is_empty(NodeRows[i].factId))
                    => (Len(Warnings(issues)) = 1 /\ Errors(issues) = <<>>)

\* the findingCode issues of a model result on the Algorithms row at 1-based
\* index i
FindingCodeIssues(e, i) ==
    SelectSeq(IssuesOf(e), LAMBDA x : /\ x.sheet = "Algorithms" /\ x.row = i - 1
                                      /\ x.field = "findingCode")

\* the Findings sheet holds the code as written, or a code equal to it up to
\* letter case
InCatalog(code) ==
    \E r \in 1..Len(session_data["Findings"]) :
        get_str_value(session_data["Findings"][r], "findingCode") = code

InCatalogIgnoringCase(code) ==
    \E r \in 1..Len(session_data["Findings"]) :
        KeyOf(session_data["Findings"][r], "findingCode") = Upper(code)

Negated(text) ==
    \E i \in 1..Len(text) : Lower(<<text[i]>>)[1] \in {"not", "not("}

\* C25: every Algorithms row whose expression uses the operator NOT, at the
\* start, after an opening parenthesis or between terms, in any letter
\* case, has an error on the field algorithm in every model validation.
C25_NegationRejected ==
    \A n \in 1..Len(returned) : \A i \in 1..Len(session_data["Algorithms"]) :
        (returned[n].op \in {"validate_model", "api_validate_model"}
         /\ ~is_empty(session_data["Algorithms"][i].algorithm)
         /\ Negated(session_data["Algorithms"][i].algorithm))
        => Errors(ExpressionIssues(returned[n], i)) # <<>>

\* the clauses of an expression: its text between the words and / or
RECURSIVE ClausesOf(_)
ClausesOf(text) ==
    IF \E i \in 1..Len(text) : Lower(<<text[i]>>)[1] \in {"and", "or"}
    THEN LET i == CHOOSE j \in 1..Len(text) :
                      /\ Lower(<<text[j]>>)[1] \in {"and", "or"}
                      /\ \A h \in 1..(j - 1) : Lower(<<text[h]>>)[1] \notin {"and", "or"}
         IN  <<SubSeq(text, 1, i - 1)>> \o ClausesOf(SubSeq(text, i + 1, Len(text)))
    ELSE <<text>>

\* some clause of the expression has a fact() term and an ordering operator
FactClauseOrdered(text) ==
    \E c \in 1..Len(ClausesOf(text)) :
        LET clause == ClausesOf(text)[c]
        IN  /\ \E i \in 1..Len(clause) : Lower(<<clause[i]>>)[1] = "fact("
            /\ \E i \in 1..Len(clause) : clause[i] \in {"<", ">", "<=", ">="}

\* the operator-misuse errors of a model result on the Algorithms row at
\* 1-based index i
MisuseErrors(e, i) ==
    SelectSeq(ExpressionIssues(e, i),
              LAMBDA x : /\ x.severity = "error"
                         /\ x.message[1] \in {OperatorMisuse,
                                "ENUMERATION fact cannot use < or > operators"})

\* C26: a model validation gives an Algorithms row an operator-misuse error
\* if and only if some and/or-separated clause of its expression has a
\* fact() term together with one of <, >, <=, >=, and gives it at most one.
C26_MisuseIffFactClauseOrdered ==
    \A n \in 1..Len(returned) : \A i \in 1..Len(session_data["Algorithms"]) :
        LET row == session_data["Algorithms"][i]
        IN  (returned[n].op \in {"validate_model", "api_validate_model"}
             /\ ~is_empty(row.algorithm))
            => /\ MisuseErrors(returned[n], i) # <<>> <=> FactClauseOrdered(row.algorithm)
               /\ Len(MisuseErrors(returned[n], i)) <= 1

\* the names an expression refers to with fact('..') or groups('..'), in
\* the order of the text: call is "fact(" or "groups("
RECURSIVE ReferencesOf(_, _)
ReferencesOf(text, call) ==
    IF Len(text) < 4 THEN <<>>
    ELSE IF /\ Lower(<<text[1]>>)[1] = call /\ text[2] = "'"
            /\ \E j \in 3..Len(text) : text[j] = "'"
         THEN LET close == CHOOSE j \in 3..Len(text) :
                               /\ text[j] = "'"
                               /\ \A h \in 3..(j - 1) : text[h] # "'"
              IN  <<SubSeq(text, 3, close - 1)>>
                  \o ReferencesOf(SubSeq(text, close + 1, Len(text)), call)
         ELSE ReferencesOf(Tail(text), call)

\* some row of a Level Facts sheet has the name, up to letter case, in the
\* column
OnFactRow(name, col) ==
    \E s \in 1..Len(FactSheets) : \E r \in 1..Len(session_data[FactSheets[s]]) :
        KeyOf(session_data[FactSheets[s]][r], col) = Upper(name)

\* the errors of a template on the expression of the Algorithms row at
\* 1-based index i
ReferenceErrors(e, i, template) ==
    SelectSeq(ExpressionIssues(e, i),
              LAMBDA x : x.severity = "error" /\ x.message[1] = template)

\* the references of a text to names that no Fact row has
Unknown(text, call, col) ==
    SelectSeq(ReferencesOf(text, call), LAMBDA name : ~OnFactRow(name, col))

\* C27: validate_model gives an Algorithms row one "Invalid factId" error
\* for each fact() reference to a factId that no Fact row of the model has,
\* one "Invalid factGroup" error for each groups() reference to a factGroup
\* that no Fact row has, and none for a reference to a factId or factGroup
\* that some Fact row has.
C27_OneErrorPerUnknownReference ==
    \A n \in 1..Len(returned) : \A i \in 1..Len(session_data["Algorithms"]) :
        LET text == session_data["Algorithms"][i].algorithm
        IN  (returned[n].op = "validate_model" /\ ~is_empty(text))
            => /\ Len(ReferenceErrors(returned[n], i, "Invalid factId"))
                     = Len(Unknown(text, "fact(", "factId"))
               /\ Len(ReferenceErrors(returned[n], i, "Invalid factGroup"))
                     = Len(Unknown(text, "groups(", "factGroup"))

\* the expression has a fact('..'), a groups('..') or an is_complete('..')
\* term
HasTerm(text) ==
    \/ ReferencesOf(text, "fact(") # <<>>
    \/ ReferencesOf(text, "groups(") # <<>>
    \/ ReferencesOf(text, "is_complete(") # <<>>

\* C28: every model validation gives an error on the expression of an
\* Algorithms row that has no fact(), groups() or is_complete() term, and
\* gives no error to an expression made of is_complete('A1') terms only.
C28_ExpressionWithoutTermRejected ==
    \A n \in 1..Len(returned) : \A i \in 1..Len(session_data["Algorithms"]) :
        LET text == session_data["Algorithms"][i].algorithm
        IN  (returned[n].op \in {"validate_model", "api_validate_model"}
             /\ ~is_empty(text))
            => /\ ~HasTerm(text) => Errors(ExpressionIssues(returned[n], i)) # <<>>
               /\ text \in {CompleteOnly, CompleteTwice}
                     => Errors(ExpressionIssues(returned[n], i)) = <<>>

\* the issues of the categories of a result, in the order of the passes
CategoryIssues(r) == Concat([c \in 1..Len(r.categories) |-> r.categories[c].issues])

\* the sum of the error_count of the categories of a result
RECURSIVE CategoryErrors(_)
CategoryErrors(categories) ==
    IF categories = <<>> THEN 0
    ELSE categories[1].error_count + CategoryErrors(Tail(categories))

\* C29: every result that validate() has returned, on a fresh instance or
\* on one validated before, has as its issues the issues of its categories
\* in pass order, and as many errors as its categories count.
C29_ResultIsItsCategories ==
    \A n \in 1..Len(returned) :
        returned[n].op = "validate_model"
        => /\ returned[n].result.issues = CategoryIssues(returned[n].result)
           /\ Len(Errors(returned[n].result.issues))
                 = CategoryErrors(returned[n].result.categories)

\* the key of a stored Modules row: its code without surrounding blanks, in
\* upper case
StoredKey(i) == Upper(Strip(session_data["Modules"][i].moduleCode))

\* no two stored Modules rows have the same key
KeysDistinct ==
    \A i, j \in 1..Len(session_data["Modules"]) : i # j => StoredKey(i) # StoredKey(j)

\* a request whose row was rejected by the validation leaves the table as
\* it was
RejectedLeavesTable ==
    (returned' # <<>> /\ ~returned'[1].result.success /\ returned'[1].result.status = 200)
    => session_data' = session_data

\* C30: from the empty store, after any sequence of add_row, update_row,
\* delete_row and delete_multiple_rows requests on the Modules table, no
\* two stored rows have the same moduleCode up to letter case and
\* surrounding blanks, and a request rejected by the row validation leaves
\* the stored table unchanged.
C30_StoredKeysDistinct == []KeysDistinct /\ [][RejectedLeavesTable]_vars

====
